---------------------------- MODULE Spec2Model ----------------------------
(***************************************************************************)
(* Verification model of the gamemaster translation backend:               *)
(*   - the tag protection engine (app/services/tag_protection_service.py), *)
(*   - the result reconciler, the submitter and the poller                 *)
(*     (app/services/zhipu_ai_service.py),                                 *)
(*   - the job store and its callback                                      *)
(*     (app/services/translation_job_service.py).                          *)
(*                                                                         *)
(* Texts are sequences of one-character strings.  Positions follow the     *)
(* source: start_pos is 0-based, end_pos is exclusive, so the match that   *)
(* covers the 1-based elements s..e has start_pos = s-1 and end_pos = e.   *)
(***************************************************************************)
EXTENDS Integers, Sequences, FiniteSets, TLC

VARIABLES
    \* ---- tag protection engine ----
    text,            \* argument of protect_tags
    custom_patterns, \* argument of protect_tags ("none" or a custom pattern name)
    tpc,             \* position of the protect / translate / restore pipeline
    all_tags,        \* _find_non_overlapping_tags: the sorted candidate list
    protected_text,  \* protect_tags: first component of the result
    tag_map,         \* protect_tags: second component of the result
    translated_text, \* the text handed to restore_tags
    restored_text,   \* result of restore_tags
    \* ---- submission and reconciliation ----
    texts,           \* number of input lines; line i is translated to Tr(i)
    manifest,        \* the JSONL request lines built by translate_batch
    artifact,        \* the lines of the downloaded result file
    reconciled,      \* outcome of download_and_process_results
    rpc,             \* position of the submit / provide / reconcile run
    \* ---- job service, submitter and poller ----
    JOB_STORE,       \* translation_job_service.JOB_STORE: job id -> job entry
    api_key,         \* the credential of the job request
    jpc,             \* position of create_and_process_translation_job
    attempts,        \* translate_batch: the attempts counter of the poll loop
    requests,        \* requests sent to the provider, by kind
    callbacks,       \* summary of the update_callback invocations so far
    response,        \* what the caller of the job service got back
    http_error,      \* HTTP error status of the latest status query, if any
    last_tick,       \* what the latest poll tick obtained and reported
    \* ---- several jobs in one store ----
    updates,         \* job id -> the callback updates its poller makes, in order
    applied,         \* job id -> how many of them have been delivered
    \* ---- the pipeline from the source column to the translations ----
    original_texts,  \* the texts read_excel_column returned
    jsonl_content,   \* the text of the uploaded requests file
    extracted        \* the matches behind the list extract_tags returned

tagVars == <<text, custom_patterns, tpc, all_tags, protected_text, tag_map,
             translated_text, restored_text>>

reconVars == <<texts, manifest, artifact, reconciled, rpc>>

jobVars == <<JOB_STORE, api_key, jpc, attempts, requests, callbacks, response,
             http_error, last_tick>>

storeVars == <<updates, applied>>

pipeVars == <<original_texts, jsonl_content>>

extractVars == <<extracted>>

vars == <<tagVars, reconVars, jobVars, storeVars, pipeVars, extractVars>>

----------------------------------------------------------------------------
(* Bounds of the model *)

\* number of pieces a source text is assembled from
MaxPieces == 3

\* number of input lines of a job
MaxLines == 3

\* number of lines of a downloaded result file
MaxRecords == 3

\* the counters of callbacks and downloads stop counting at this value
CountCap == 2

----------------------------------------------------------------------------
(* Generic helpers *)

Min(S) == CHOOSE x \in S : \A y \in S : x <= y

Range(f) == {f[x] : x \in DOMAIN f}

RECURSIVE Flatten(_)
Flatten(ss) == IF ss = <<>> THEN <<>> ELSE Head(ss) \o Flatten(Tail(ss))

\* Python: text[i] guarded, "" when i is outside the text (1-based i)
At(t, i) == IF i >= 1 /\ i <= Len(t) THEN t[i] ELSE ""

\* Python: t[i-1:].startswith(lit)
StartsWith(t, i, lit) == \A k \in 1..Len(lit) : At(t, i + k - 1) = lit[k]

\* smallest j >= i with t[j] in S, 0 when there is none
FirstIn(t, i, S) ==
    LET js == {j \in i..Len(t) : t[j] \in S}
    IN IF js = {} THEN 0 ELSE Min(js)

\* last index of the maximal run of characters of S that starts at i
\* (i-1 when t[i] is not in S)
RunEnd(t, i, S) ==
    LET bad == {j \in i..Len(t) : t[j] \notin S}
    IN IF bad = {} THEN Len(t) ELSE Min(bad) - 1

\* Python: pat in t
Contains(t, pat) == \E i \in 1..(Len(t) - Len(pat) + 1) : StartsWith(t, i, pat)

\* Python: t.replace(pat, rep) for a non-empty pat: all non-overlapping
\* occurrences, scanned left to right
RECURSIVE ReplaceFrom(_, _, _, _)
ReplaceFrom(t, i, pat, rep) ==
    IF i > Len(t) THEN <<>>
    ELSE IF StartsWith(t, i, pat)
         THEN rep \o ReplaceFrom(t, i + Len(pat), pat, rep)
         ELSE <<t[i]>> \o ReplaceFrom(t, i + 1, pat, rep)

Replace(t, pat, rep) == ReplaceFrom(t, 1, pat, rep)

\* Python: t[a:b] with 0-based a, exclusive b
Slice(t, a, b) == SubSeq(t, a + 1, b)

----------------------------------------------------------------------------
(* Character classes of the registry's regular expressions *)

Digits == {"0", "1", "2", "3", "4", "5", "6", "7", "8", "9"}

LowerLetters == {"a", "b", "c", "d", "e", "f", "g", "h", "i", "j", "k", "l", "m",
                 "n", "o", "p", "q", "r", "s", "t", "u", "v", "w", "x", "y", "z"}

UpperLetters == {"A", "B", "C", "D", "E", "F", "G", "H", "I", "J", "K", "L", "M",
                 "N", "O", "P", "Q", "R", "S", "T", "U", "V", "W", "X", "Y", "Z"}

\* [a-zA-Z]
Letters == LowerLetters \cup UpperLetters

\* [0-9a-fA-F]
HexChars == Digits \cup {"a", "b", "c", "d", "e", "f", "A", "B", "C", "D", "E", "F"}

\* [sdfeEgGxXoc]
FormatLetters == {"s", "d", "f", "e", "E", "g", "G", "x", "X", "o", "c"}

\* ['\"]
QuoteChars == {"'", "\""}

\* [¥$€£₽₩₴₸₺₼₾₿]: the model's texts are ASCII, "$" is the only member
\* of the class they can contain
CurrencyChars == {"$"}

\* [<>{}[\]()%$#@!&*+=|\\/]
SpecialChars == {"<", ">", "{", "}", "[", "]", "(", ")", "%", "$", "#", "@",
                 "!", "&", "*", "+", "=", "|", "\\", "/"}

\* the alternation of unity_rich_text
UnityNames == {
    <<"b">>, <<"i">>, <<"s","i","z","e">>, <<"c","o","l","o","r">>,
    <<"m","a","t","e","r","i","a","l">>, <<"q","u","a","d">>,
    <<"s","p","r","i","t","e">>, <<"l","i","n","k">>, <<"n","o","b","r">>,
    <<"p","a","g","e">>, <<"i","n","d","e","n","t">>, <<"a","l","i","g","n">>,
    <<"m","a","r","k">>, <<"m","s","p","a","c","e">>, <<"w","i","d","t","h">>,
    <<"s","t","y","l","e">>, <<"g","r","a","d","i","e","n","t">>,
    <<"c","s","p","a","c","e">>, <<"f","o","n","t">>,
    <<"v","o","f","f","s","e","t">>,
    <<"l","i","n","e","-","h","e","i","g","h","t">>, <<"p","o","s">>,
    <<"s","p","a","c","e">>, <<"n","o","p","a","r","s","e">>,
    <<"u","p","p","e","r","c","a","s","e">>, <<"l","o","w","e","r","c","a","s","e">>,
    <<"s","m","a","l","l","c","a","p","s">>, <<"s","u","p">>, <<"s","u","b">> }

----------------------------------------------------------------------------
(* The registry: self.patterns in insertion order, with priorities *)

Patterns == <<
    [name |-> "brace_variables",   priority |-> 100],
    [name |-> "unity_rich_text",   priority |-> 90],
    [name |-> "item_links",        priority |-> 80],
    [name |-> "npc_links",         priority |-> 80],
    [name |-> "quest_links",       priority |-> 80],
    [name |-> "achievement_links", priority |-> 80],
    [name |-> "game_icons",        priority |-> 80],
    [name |-> "game_commands",     priority |-> 80],
    [name |-> "percentage_vars",   priority |-> 70],
    [name |-> "format_specifiers", priority |-> 70],
    [name |-> "color_codes",       priority |-> 70],
    [name |-> "html_tags",         priority |-> 60],
    [name |-> "brackets",          priority |-> 50],
    [name |-> "parentheses",       priority |-> 50],
    [name |-> "quotes",            priority |-> 50],
    [name |-> "currency_symbols",  priority |-> 40],
    [name |-> "number_format",     priority |-> 40],
    [name |-> "time_format",       priority |-> 40],
    [name |-> "date_format",       priority |-> 40],
    [name |-> "special_chars",     priority |-> 30] >>

\* a literal prefix followed by the lazy .*? up to the first closer
LazyDelim(t, i, prefix, closers) ==
    IF StartsWith(t, i, prefix) THEN FirstIn(t, i + Len(prefix), closers) ELSE 0

\* <\/?(b|i|...)(=[^>]*)?>
UnityMatch(t, i) ==
    IF At(t, i) # "<" THEN 0
    ELSE LET p == IF At(t, i + 1) = "/" THEN i + 2 ELSE i + 1
             ends == {e \in (p + 1)..Len(t) :
                        \E n \in UnityNames :
                           /\ StartsWith(t, p, n)
                           /\ LET q == p + Len(n)
                              IN \/ At(t, q) = ">" /\ e = q
                                 \/ At(t, q) = "=" /\ e = FirstIn(t, q + 1, {">"})}
         IN IF ends = {} THEN 0 ELSE Min(ends)

\* %%[^%]*%%
PercentageMatch(t, i) ==
    IF ~StartsWith(t, i, <<"%", "%">>) THEN 0
    ELSE LET j == FirstIn(t, i + 2, {"%"})
         IN IF j # 0 /\ At(t, j + 1) = "%" THEN j + 1 ELSE 0

\* %[\d\.]*[sdfeEgGxXoc]
FormatMatch(t, i) ==
    IF At(t, i) # "%" THEN 0
    ELSE LET r == RunEnd(t, i + 1, Digits \cup {"."})
         IN IF At(t, r + 1) \in FormatLetters THEN r + 1 ELSE 0

\* \d+[,\.]\d+
NumberMatch(t, i) ==
    IF At(t, i) \notin Digits THEN 0
    ELSE LET r == RunEnd(t, i, Digits)
         IN IF At(t, r + 1) \in {",", "."} /\ At(t, r + 2) \in Digits
            THEN RunEnd(t, r + 2, Digits) ELSE 0

\* \d{1,2}:\d{2}(:\d{2})?
TimeMatch(t, i) ==
    LET c == IF At(t, i) \in Digits /\ At(t, i + 1) \in Digits /\ At(t, i + 2) = ":"
             THEN i + 2
             ELSE IF At(t, i) \in Digits /\ At(t, i + 1) = ":" THEN i + 1 ELSE 0
    IN IF c = 0 \/ At(t, c + 1) \notin Digits \/ At(t, c + 2) \notin Digits THEN 0
       ELSE IF At(t, c + 3) = ":" /\ At(t, c + 4) \in Digits /\ At(t, c + 5) \in Digits
            THEN c + 5 ELSE c + 2

\* \d{4}-\d{2}-\d{2}
DateMatch(t, i) ==
    IF /\ \A k \in {0, 1, 2, 3, 5, 6, 8, 9} : At(t, i + k) \in Digits
       /\ At(t, i + 4) = "-" /\ At(t, i + 7) = "-"
    THEN i + 9 ELSE 0

\* pattern.match at position i: the 1-based index of the last matched
\* character (= end_pos), 0 when the pattern does not match at i
MatchEnd(name, t, i) ==
    CASE name = "brace_variables"   -> LazyDelim(t, i, <<"{", "$">>, {"}"})
      [] name = "unity_rich_text"   -> UnityMatch(t, i)
      [] name = "item_links"        -> LazyDelim(t, i, <<"[","i","t","e","m",":">>, {"]"})
      [] name = "npc_links"         -> LazyDelim(t, i, <<"[","n","p","c",":">>, {"]"})
      [] name = "quest_links"       -> LazyDelim(t, i, <<"[","q","u","e","s","t",":">>, {"]"})
      [] name = "achievement_links" ->
             LazyDelim(t, i, <<"[","a","c","h","i","e","v","e","m","e","n","t",":">>, {"]"})
      [] name = "game_icons"        -> LazyDelim(t, i, <<"[","i","c","o","n",":">>, {"]"})
      [] name = "game_commands"     ->
             IF At(t, i) = "/" /\ At(t, i + 1) \in Letters
             THEN RunEnd(t, i + 1, Letters) ELSE 0
      [] name = "percentage_vars"   -> PercentageMatch(t, i)
      [] name = "format_specifiers" -> FormatMatch(t, i)
      [] name = "color_codes"       ->
             IF At(t, i) = "#" /\ \A k \in 1..6 : At(t, i + k) \in HexChars
             THEN i + 6 ELSE 0
      [] name = "html_tags"         ->
             IF At(t, i) = "<" /\ At(t, i + 1) \notin {">", ""}
             THEN FirstIn(t, i + 2, {">"}) ELSE 0
      [] name = "brackets"          -> LazyDelim(t, i, <<"[">>, {"]"})
      [] name = "parentheses"       -> LazyDelim(t, i, <<"(">>, {")"})
      [] name = "quotes"            ->
             IF At(t, i) \in QuoteChars THEN FirstIn(t, i + 1, QuoteChars) ELSE 0
      [] name = "currency_symbols"  -> IF At(t, i) \in CurrencyChars THEN i ELSE 0
      [] name = "number_format"     -> NumberMatch(t, i)
      [] name = "time_format"       -> TimeMatch(t, i)
      [] name = "date_format"       -> DateMatch(t, i)
      [] name = "special_chars"     -> IF At(t, i) \in SpecialChars THEN i ELSE 0
      \* the custom pattern r"a+" used as protect_tags' custom_patterns argument
      [] name = "custom_letters"    ->
             IF At(t, i) = "a" THEN RunEnd(t, i, {"a"}) ELSE 0
      [] OTHER -> 0

\* pattern.finditer(text): the non-overlapping matches, left to right
RECURSIVE FindIter(_, _, _)
FindIter(p, t, i) ==
    IF i > Len(t) THEN <<>>
    ELSE LET e == MatchEnd(p.name, t, i)
         IN IF e = 0 THEN FindIter(p, t, i + 1)
            ELSE << [original_tag |-> SubSeq(t, i, e),
                     placeholder  |-> <<>>,
                     start_pos    |-> i - 1,
                     end_pos      |-> e,
                     pattern_name |-> p.name,
                     priority     |-> p.priority] >> \o FindIter(p, t, e + 1)


----------------------------------------------------------------------------
(* _find_non_overlapping_tags *)

\* the loop over self.compiled_patterns that fills all_tags
RECURSIVE CollectTags(_, _)
CollectTags(ps, t) ==
    IF ps = <<>> THEN <<>>
    ELSE FindIter(Head(ps), t, 1) \o CollectTags(Tail(ps), t)

\* key=lambda x: (-x.priority, x.start_pos), compared as Python tuples
PriorityLess_Ascending(a, b) ==
    \/ a.priority < b.priority
    \/ a.priority = b.priority /\ a.start_pos < b.start_pos

PriorityLess(a, b) ==
    \/ a.priority > b.priority
    \/ a.priority = b.priority /\ a.start_pos < b.start_pos

\* list.sort is stable: x goes before the first element that is greater
RECURSIVE InsertByPriority(_, _)
InsertByPriority(sorted, x) ==
    IF sorted = <<>> THEN <<x>>
    ELSE IF PriorityLess(x, Head(sorted)) THEN <<x>> \o sorted
         ELSE <<Head(sorted)>> \o InsertByPriority(Tail(sorted), x)

RECURSIVE SortByPriority(_, _)
SortByPriority(todo, sorted) ==
    IF todo = <<>> THEN sorted
    ELSE SortByPriority(Tail(todo), InsertByPriority(sorted, Head(todo)))

\* tag.start_pos < end and tag.end_pos > start
Overlaps_EndOnly(tag, range) == tag.start_pos < range[2] /\ tag.end_pos > range[2]

\* an overlap test that also rejects a tag that only touches a used range
Overlaps_Touching(tag, range) == tag.start_pos <= range[2] /\ tag.end_pos >= range[1]

Overlaps(tag, range) == tag.start_pos < range[2] /\ tag.end_pos > range[1]

\* the selection loop: sel is non_overlapping, used is used_ranges
RECURSIVE SelectTags(_, _, _)
SelectTags(todo, sel, used) ==
    IF todo = <<>> THEN sel
    ELSE LET tag == Head(todo)
             overlap == \E r \in used : Overlaps(tag, r)
         IN IF overlap THEN SelectTags(Tail(todo), sel, used)
            ELSE SelectTags(Tail(todo), Append(sel, tag),
                            used \cup {<<tag.start_pos, tag.end_pos>>})

\* non_overlapping.sort(key=lambda x: x.start_pos)
RECURSIVE InsertByStart(_, _)
InsertByStart(sorted, x) ==
    IF sorted = <<>> THEN <<x>>
    ELSE IF x.start_pos < Head(sorted).start_pos THEN <<x>> \o sorted
         ELSE <<Head(sorted)>> \o InsertByStart(Tail(sorted), x)

RECURSIVE SortByStartFrom(_, _)
SortByStartFrom(todo, sorted) ==
    IF todo = <<>> THEN sorted
    ELSE SortByStartFrom(Tail(todo), InsertByStart(sorted, Head(todo)))

SortByStart_Skipped(tags) == tags

SortByStart(tags) == SortByStartFrom(tags, <<>>)

\* str(i): the decimal digits of a natural number
DigitChar(d) == <<"0", "1", "2", "3", "4", "5", "6", "7", "8", "9">>[d + 1]

RECURSIVE DecimalStr(_)
DecimalStr(n) ==
    IF n < 10 THEN <<DigitChar(n)>>
    ELSE DecimalStr(n \div 10) \o <<DigitChar(n % 10)>>

\* f"__TAG{i}__"
Placeholder(i) == <<"_", "_", "T", "A", "G">> \o DecimalStr(i) \o <<"_", "_">>

\* every tag given the placeholder of index 0
AssignPlaceholders_Constant(tags) ==
    [k \in 1..Len(tags) |-> [tags[k] EXCEPT !.placeholder = Placeholder(0)]]

\* for i, tag in enumerate(non_overlapping): tag.placeholder = f"__TAG{i}__"
AssignPlaceholders(tags) ==
    [k \in 1..Len(tags) |-> [tags[k] EXCEPT !.placeholder = Placeholder(k - 1)]]

\* all_tags after the sort by (-priority, start_pos)
SortedCandidates(t) == SortByPriority(CollectTags(Patterns, t), <<>>)

\* the returned list: selected, sorted by position, with placeholders
FindNonOverlappingTags(t) ==
    AssignPlaceholders(SortByStart(SelectTags(SortedCandidates(t), <<>>, {})))

----------------------------------------------------------------------------
(* protect_tags *)

\* the custom_patterns arguments of the model: none, one valid pattern
\* (r"a+", priority 95), one that re.compile rejects
\* "custom_letters" is r"a+"; "custom_invalid" is a pattern of invalid syntax,
\* such as "(" (re.compile raises re.error); "custom_overflow" is a pattern
\* that re.compile rejects with another exception, such as
\* "a{99999999999999999999}" (OverflowError)
CustomPatternArgs == {"none", "custom_letters", "custom_invalid", "custom_overflow"}

CustomPriority == 95

\* re.compile(pattern) succeeds
Compiles(c) == c = "custom_letters"

\* an exception leaves the compile loop although re.error is not caught
CompileRaises_Uncaught(c) == c \in {"custom_invalid", "custom_overflow"}

\* an exception leaves the compile loop of protect_tags: re.error is caught
\* inside the loop and the pattern is skipped, any other exception is not
CompileRaises(c) == c = "custom_overflow"

\* the local compiled_patterns of protect_tags: the registry plus every
\* custom pattern that compiles; a pattern that raises re.error is skipped
LocalCompiledPatterns(c) ==
    IF c # "none" /\ Compiles(c)
    THEN Append(Patterns, [name |-> c, priority |-> CustomPriority])
    ELSE Patterns

\* the replacement loop, tags taken from the rightmost to the leftmost
RECURSIVE SubstituteFrom(_, _, _)
SubstituteFrom(t, tags, k) ==
    IF k = 0 THEN t
    ELSE SubstituteFrom(Slice(t, 0, tags[k].start_pos) \o tags[k].placeholder
                          \o Slice(t, tags[k].end_pos, Len(t)),
                        tags, k - 1)

RECURSIVE SubstituteLeftToRight(_, _, _)
SubstituteLeftToRight(t, tags, k) ==
    IF k > Len(tags) THEN t
    ELSE SubstituteLeftToRight(Slice(t, 0, tags[k].start_pos) \o tags[k].placeholder
                                 \o Slice(t, tags[k].end_pos, Len(t)),
                               tags, k + 1)

SubstituteTags_LeftToRight(t, tags) == SubstituteLeftToRight(t, tags, 1)

\* sorted(tags, key=start_pos, reverse=True): the tags are distinct in
\* start_pos, so the reverse order is the list read from its end
SubstituteTags(t, tags) == SubstituteFrom(t, SortByStartFrom(tags, <<>>), Len(tags))

\* tag_map = {tag.placeholder: tag for tag in tags}
TagMapOf(tags) ==
    [ph \in {tags[k].placeholder : k \in 1..Len(tags)} |->
        LET ks == {k \in 1..Len(tags) : tags[k].placeholder = ph}
        IN tags[CHOOSE k \in ks : \A j \in ks : j <= k]]

\* protect_tags(text, custom_patterns) -> (protected_text, tag_map).
\* The custom patterns are compiled into the local compiled_patterns, but
\* _find_non_overlapping_tags(text) reads self.compiled_patterns.  An
\* exception inside returns (text, {}).
ProtectTags(t, c) ==
    IF t = <<>> THEN [protected_text |-> t, tag_map |-> <<>>]
    ELSE IF CompileRaises(c) THEN [protected_text |-> t, tag_map |-> <<>>]
    ELSE LET compiled_patterns == LocalCompiledPatterns(c)
             tags == FindNonOverlappingTags(t)
         IN [protected_text |-> SubstituteTags(t, tags),
             tag_map        |-> TagMapOf(tags)]

----------------------------------------------------------------------------
(* restore_tags *)

RECURSIVE LStrip(_, _)
LStrip(t, S) == IF t # <<>> /\ Head(t) \in S THEN LStrip(Tail(t), S) ELSE t

RECURSIVE RStrip(_, _)
RStrip(t, S) ==
    IF t # <<>> /\ t[Len(t)] \in S THEN RStrip(SubSeq(t, 1, Len(t) - 1), S) ELSE t

\* str.strip(chars): chars is a set of characters, not a prefix
Strip(t, S) == RStrip(LStrip(t, S), S)

DigitValue(c) == CHOOSE d \in 0..9 : DigitChar(d) = c

\* int(s) for a string of decimal digits; -1 stands for ValueError
RECURSIVE ParseInt(_)
ParseInt(t) ==
    IF t = <<>> \/ \E k \in 1..Len(t) : t[k] \notin Digits THEN -1
    ELSE IF Len(t) = 1 THEN DigitValue(t[1])
         ELSE 10 * ParseInt(SubSeq(t, 1, Len(t) - 1)) + DigitValue(t[Len(t)])

\* key=lambda x: int(x.strip('__TAG').strip('__'))
PlaceholderNumber(ph) == ParseInt(Strip(Strip(ph, {"_", "T", "A", "G"}), {"_"}))

\* sorted(tag_map.keys(), key=...): ascending by number (keys with equal
\* numbers keep the dict's order, which a function does not record)
RECURSIVE SortedPlaceholders(_)
SortedPlaceholders(keys) ==
    IF keys = {} THEN <<>>
    ELSE LET m == CHOOSE k \in keys :
                     \A j \in keys : PlaceholderNumber(k) <= PlaceholderNumber(j)
         IN <<m>> \o SortedPlaceholders(keys \ {m})

\* the replacement loop replacing only the first occurrence of each placeholder
RECURSIVE RestoreLoop_FirstOnly(_, _, _)
RestoreLoop_FirstOnly(t, phs, map) ==
    IF phs = <<>> THEN t
    ELSE LET ph == Head(phs)
             i  == Min({j \in 1..Len(t) : StartsWith(t, j, ph)})
         IN IF Contains(t, ph)
            THEN RestoreLoop_FirstOnly(
                     SubSeq(t, 1, i - 1) \o map[ph].original_tag
                         \o SubSeq(t, i + Len(ph), Len(t)),
                     Tail(phs), map)
            ELSE RestoreLoop_FirstOnly(t, Tail(phs), map)

\* the replacement loop over sorted_placeholders
RECURSIVE RestoreLoop(_, _, _)
RestoreLoop(t, phs, map) ==
    IF phs = <<>> THEN t
    ELSE LET ph == Head(phs)
         IN IF Contains(t, ph)
            THEN RestoreLoop(Replace(t, ph, map[ph].original_tag), Tail(phs), map)
            ELSE RestoreLoop(t, Tail(phs), map)

\* restore_tags(text, tag_map) -> str; an exception inside returns text
RestoreTags(t, map) ==
    IF t = <<>> \/ DOMAIN map = {} THEN t
    ELSE IF \E ph \in DOMAIN map : PlaceholderNumber(ph) = -1 THEN t
         ELSE RestoreLoop(t, SortedPlaceholders(DOMAIN map), map)

----------------------------------------------------------------------------
(* The protect / translate / restore pipeline of one source line *)

\* the pieces source texts are assembled from
Pieces == {
    <<"{", "$", "a", "}">>,
    <<"<", "b", ">">>,
    <<"<">>,
    <<"[">>,
    <<"]">>,
    <<"a">>,
    <<"!">>,
    <<"1", ".", "5">>,
    <<"_", "_", "T", "A", "G", "0", "_", "_">>,
    <<"_", "_", "T", "A", "G", "1", "_", "_">>,
    <<"T", "A", "G", "0", "_", "_">> }

RECURSIVE PieceLists(_)
PieceLists(n) ==
    IF n = 0 THEN {<<>>}
    ELSE LET shorter == PieceLists(n - 1)
         IN shorter \cup {Append(l, p) : l \in {s \in shorter : Len(s) = n - 1},
                                          p \in Pieces}

Texts == {Flatten(l) : l \in PieceLists(MaxPieces)}

TagIdle ==
    /\ text = <<>>
    /\ custom_patterns = "none"
    /\ tpc = "idle"
    /\ all_tags = <<>>
    /\ protected_text = <<>>
    /\ tag_map = <<>>
    /\ translated_text = <<>>
    /\ restored_text = <<>>

ReconIdle ==
    /\ texts = 0
    /\ manifest = <<>>
    /\ artifact = <<>>
    /\ reconciled = [raised |-> FALSE, list |-> <<>>]
    /\ rpc = "idle"

NoRequests == [upload |-> 0, create |-> 0, status |-> 0, download |-> 0]

NoCallbacks == [terminal |-> 0, after_terminal |-> FALSE]

\* no source column has been read
PipeIdle == original_texts = <<>> /\ jsonl_content = <<>> /\ extracted = <<>>

\* the model of several jobs in one store is not in use
StoreIdle ==
    /\ updates = <<>>
    /\ applied = <<>>

\* no poll tick has been recorded: status is the remote status the tick
\* obtained ("none", "non_terminal", "completed", "failed"), errors what
\* the "errors" of a failed or cancelled answer held, calls the number of
\* update_callback invocations the tick made
NoTick == [status |-> "none", errors |-> "none", calls |-> 0]

\* the credentials of the job requests, as texts: well formed, without a
\* dot, with two dots, empty
GoodKey == <<"i", ".", "s">>

ApiKeys == {GoodKey, <<"i", "s">>, <<"i", ".", "s", ".", "x">>, <<>>}

\* generate_zhipu_token: key_id, secret = api_key.split(".") unpacks only
\* when the split yields two parts, that is when the key holds one dot
SplitParts(key) == Cardinality({i \in DOMAIN key : key[i] = "."}) + 1

\* a check of the credential that only asks for a non-empty key
KeyFormatOk_NonEmpty(key) == key # <<>>

KeyFormatOk(key) == SplitParts(key) = 2

\* the detail of the HTTPException generate_zhipu_token raises otherwise
KeyFormatError == "Invalid Zhipu API Key format. Expected 'id.secret'."

JobIdle ==
    /\ JOB_STORE = <<>>
    /\ api_key = GoodKey
    /\ jpc = "idle"
    /\ attempts = 0
    /\ requests = NoRequests
    /\ callbacks = NoCallbacks
    /\ response = "none"
    /\ http_error = "unobserved"
    /\ last_tick = NoTick
    /\ StoreIdle
    /\ PipeIdle

TagInit ==
    /\ ReconIdle
    /\ JobIdle
    /\ text \in Texts
    /\ custom_patterns \in CustomPatternArgs
    /\ tpc = "input"
    /\ all_tags = <<>>
    /\ protected_text = <<>>
    /\ tag_map = <<>>
    /\ translated_text = <<>>
    /\ restored_text = <<>>

\* protected_text, tag_map = tag_service.protect_tags(text, custom_patterns)
Protect ==
    /\ tpc = "input"
    /\ LET r == ProtectTags(text, custom_patterns)
       IN /\ protected_text' = r.protected_text
          /\ tag_map' = r.tag_map
    /\ all_tags' = IF text = <<>> \/ CompileRaises(custom_patterns)
                   THEN <<>> ELSE SortedCandidates(text)
    /\ tpc' = "protected"
    /\ UNCHANGED <<text, custom_patterns, translated_text, restored_text>>
    /\ UNCHANGED <<reconVars, jobVars, storeVars, pipeVars, extractVars>>

\* the translation step returns the protected text as it is
TranslateEcho ==
    /\ tpc = "protected"
    /\ translated_text' = protected_text
    /\ tpc' = "translated"
    /\ UNCHANGED <<text, custom_patterns, all_tags, protected_text, tag_map,
                   restored_text>>
    /\ UNCHANGED <<reconVars, jobVars, storeVars, pipeVars, extractVars>>

\* the translation step drops one placeholder from the protected text
TranslateDrop ==
    /\ tpc = "protected"
    /\ \E ph \in DOMAIN tag_map :
          /\ Contains(protected_text, ph)
          /\ translated_text' = Replace(protected_text, ph, <<>>)
    /\ tpc' = "translated"
    /\ UNCHANGED <<text, custom_patterns, all_tags, protected_text, tag_map,
                   restored_text>>
    /\ UNCHANGED <<reconVars, jobVars, storeVars, pipeVars, extractVars>>

\* restored_text = tag_service.restore_tags(translated_text, tag_map)
Restore ==
    /\ tpc = "translated"
    /\ restored_text' = RestoreTags(translated_text, tag_map)
    /\ tpc' = "restored"
    /\ UNCHANGED <<text, custom_patterns, all_tags, protected_text, tag_map,
                   translated_text>>
    /\ UNCHANGED <<reconVars, jobVars, storeVars, pipeVars, extractVars>>

TagNext == Protect \/ TranslateEcho \/ TranslateDrop \/ Restore

TagSpec == TagInit /\ [][TagNext]_vars

----------------------------------------------------------------------------
(* restore_tags called on its own, with any text and any tag_map *)

\* the pieces the texts handed to restore_tags are assembled from
RestorePieces == {
    <<"_", "_", "T", "A", "G", "0", "_", "_">>,
    <<"_", "_", "T", "A", "G", "1", "_", "_">>,
    <<"_", "_", "T", "A", "G", "_", "_">>,
    <<"T", "A", "G", "1", "_", "_">>,
    <<"a">> }

RECURSIVE RestorePieceLists(_)
RestorePieceLists(n) ==
    IF n = 0 THEN {<<>>}
    ELSE LET shorter == RestorePieceLists(n - 1)
         IN shorter \cup {Append(l, p) : l \in {s \in shorter : Len(s) = n - 1},
                                          p \in RestorePieces}

RestoreTexts == {Flatten(l) : l \in RestorePieceLists(MaxPieces)}

\* the keys and the original tags of the maps handed to restore_tags
RestoreKeys == {Placeholder(0), Placeholder(1), <<"_", "_", "T", "A", "G", "_", "_">>}

RestoreOriginals == {<<"<", "b", ">">>, <<>>, Placeholder(1)}

\* a TagInfo whose original_tag and placeholder are given
RestoreTagInfo(ph, orig) ==
    [original_tag |-> orig, placeholder |-> ph, start_pos |-> 0, end_pos |-> 0,
     pattern_name |-> "html_tags", priority |-> 60]

RestoreMaps ==
    UNION {[ks -> RestoreOriginals] : ks \in SUBSET RestoreKeys}

RestoreInit ==
    /\ ReconIdle
    /\ JobIdle
    /\ text = <<>>
    /\ custom_patterns = "none"
    /\ all_tags = <<>>
    /\ protected_text = <<>>
    /\ translated_text \in RestoreTexts
    /\ \E m \in RestoreMaps :
          tag_map = [ph \in DOMAIN m |-> RestoreTagInfo(ph, m[ph])]
    /\ tpc = "translated"
    /\ restored_text = <<>>

RestoreSpec == RestoreInit /\ [][Restore]_vars

----------------------------------------------------------------------------
(* translate_batch: the request manifest *)

\* custom ids: kind "underscore" is "request_<n>", kind "hyphen" is
\* "request-<n>", kind "none" is a missing or null custom_id, kind "int" is a
\* JSON number <n> instead of a string
Cid(kind, n) == [kind |-> kind, n |-> n]

\* current_custom_id = f"request_{i}"
RequestId(i) == Cid("underscore", i)

\* the jsonl_lines of translate_batch: one request per input line, in input
\* order (json.dumps escapes every newline of the line's text)
BuildManifest(n) == [i \in 1..n |-> [custom_id |-> RequestId(i), line |-> i]]

----------------------------------------------------------------------------
(* download_and_process_results *)

\* entries of the returned list
Tr(i) == [kind |-> "translation", n |-> i]
ErrorMarker == [kind |-> "[Error: ...]", n |-> 0]
MissingMarker(i) == [kind |-> "[Missing Translation for request-<n>]", n |-> i]

\* translated_texts_map[custom_id] = value on an insertion-ordered dict,
\* kept as a sequence of <<key, value>> pairs
RECURSIVE MapPut(_, _, _)
MapPut(map, k, v) ==
    IF map = <<>> THEN << <<k, v>> >>
    ELSE IF Head(map)[1] = k THEN << <<k, v>> >> \o Tail(map)
         ELSE <<Head(map)>> \o MapPut(Tail(map), k, v)

MapHas(map, k) == \E i \in 1..Len(map) : map[i][1] = k

MapGet(map, k, default) ==
    IF MapHas(map, k) THEN map[CHOOSE i \in 1..Len(map) : map[i][1] = k][2]
    ELSE default

\* the loop over the lines of the result file.  A line that is empty, is not
\* JSON or is not a JSON object is skipped; every other line stores one
\* value under its custom_id.
RECURSIVE ParseLines(_, _)
ParseLines(lines, map) ==
    IF lines = <<>> THEN map
    ELSE LET r == Head(lines)
         IN IF r.kind = "skipped" THEN ParseLines(Tail(lines), map)
            ELSE IF r.kind = "error"
                 THEN ParseLines(Tail(lines), MapPut(map, r.custom_id, ErrorMarker))
                 ELSE ParseLines(Tail(lines), MapPut(map, r.custom_id, r.content))

\* cid and cid.startswith("request-")
HasRequestPrefix(cid) == cid.kind = "hyphen"

\* the loop that computes max_n from the keys of the map
RECURSIVE MaxN(_, _)
MaxN(map, max_n) ==
    IF map = <<>> THEN max_n
    ELSE LET cid == Head(map)[1]
         IN IF HasRequestPrefix(cid) /\ cid.n > max_n
            THEN MaxN(Tail(map), cid.n)
            ELSE MaxN(Tail(map), max_n)

\* custom_id_to_find = f"request-{i+1}"
CustomIdToFind(i) == Cid("hyphen", i)

\* the parsing and rebuilding part of download_and_process_results: the
\* returned list, or raised = TRUE when an exception leaves the function
\* (a truthy non-string key has no startswith)
DownloadAndProcessResults(lines) ==
    LET translated_texts_map == ParseLines(lines, <<>>)
        max_n == MaxN(translated_texts_map, 0)
    IN IF \E i \in 1..Len(translated_texts_map) :
             translated_texts_map[i][1].kind = "int" /\ translated_texts_map[i][1].n # 0
       THEN [raised |-> TRUE, list |-> <<>>]
       ELSE IF max_n > 0
            THEN [raised |-> FALSE,
                  list |-> [i \in 1..max_n |->
                              MapGet(translated_texts_map, CustomIdToFind(i),
                                     MissingMarker(i))]]
            ELSE [raised |-> FALSE,
                  list |-> [i \in 1..Len(translated_texts_map) |->
                              translated_texts_map[i][2]]]

----------------------------------------------------------------------------
(* Submission followed by reconciliation of an arbitrary result file *)

\* the lines a result file can hold for a job of n input lines
ResultCids(n) ==
    {RequestId(i) : i \in 1..n} \cup {CustomIdToFind(i) : i \in 1..n}
        \cup {Cid("none", 0), Cid("int", 7)}

ContentOf(cid) == IF cid.kind \in {"underscore", "hyphen"} THEN Tr(cid.n) ELSE Tr(1)

ResultLines(n) ==
    {[kind |-> "success", custom_id |-> c, content |-> ContentOf(c)] : c \in ResultCids(n)}
      \cup {[kind |-> "error", custom_id |-> c, content |-> ErrorMarker] : c \in ResultCids(n)}
      \cup {[kind |-> "skipped", custom_id |-> Cid("none", 0), content |-> ErrorMarker]}

RECURSIVE ResultFiles(_, _)
ResultFiles(n, len) ==
    IF len = 0 THEN {<<>>}
    ELSE LET shorter == ResultFiles(n, len - 1)
         IN shorter \cup {Append(f, l) : f \in {g \in shorter : Len(g) = len - 1},
                                          l \in ResultLines(n)}

ReconInit ==
    /\ TagIdle
    /\ JobIdle
    /\ texts \in 1..MaxLines
    /\ manifest = <<>>
    /\ artifact = <<>>
    /\ reconciled = [raised |-> FALSE, list |-> <<>>]
    /\ rpc = "start"

\* translate_batch builds and uploads the manifest
ReconSubmit ==
    /\ rpc = "start"
    /\ manifest' = BuildManifest(texts)
    /\ rpc' = "submitted"
    /\ UNCHANGED <<texts, artifact, reconciled>>
    /\ UNCHANGED <<tagVars, jobVars, storeVars, pipeVars, extractVars>>

\* the provider produces the result file
ReconProvide ==
    /\ rpc = "submitted"
    /\ artifact' \in ResultFiles(texts, MaxRecords)
    /\ rpc' = "provided"
    /\ UNCHANGED <<texts, manifest, reconciled>>
    /\ UNCHANGED <<tagVars, jobVars, storeVars, pipeVars, extractVars>>

\* download_and_process_results on the downloaded content
ReconDownload ==
    /\ rpc = "provided"
    /\ reconciled' = DownloadAndProcessResults(artifact)
    /\ rpc' = "reconciled"
    /\ UNCHANGED <<texts, manifest, artifact>>
    /\ UNCHANGED <<tagVars, jobVars, storeVars, pipeVars, extractVars>>

ReconNext == ReconSubmit \/ ReconProvide \/ ReconDownload

ReconSpec == ReconInit /\ [][ReconNext]_vars

----------------------------------------------------------------------------
(* translation_job_service: the job store and its callback *)

\* Max polling attempts of zhipu_ai_service
MAX_POLLING_ATTEMPTS == 540

JobId == "job1"

BatchId == "batch1"

\* initial_job_data (None is "None" for strings and <<>> for error_message
\* and translations; an error message is the sequence of its parts)
InitialJobData ==
    [status                 |-> "pending",
     file_path_processed    |-> "None",
     output_file_path       |-> "None",
     original_texts_count   |-> 0,
     translated_texts_count |-> 0,
     progress_percentage    |-> 0,
     zhipu_batch_id_actual  |-> "None",
     error_message          |-> <<>>,
     translations           |-> <<>>,
     message                |-> "Job initiated."]

\* a COMPLETED branch that records the missing results but leaves the
\* status the callback has already set
CompletedBranch_KeepsStatus(entry, kw, write) ==
    LET translations == IF "result" \in DOMAIN kw THEN kw.result ELSE <<>>
    IN IF translations # <<>>
       THEN [entry EXCEPT !.translations = translations,
                          !.translated_texts_count = Len(translations),
                          !.status = "completed",
                          !.progress_percentage = 100]
       ELSE [entry EXCEPT
               !.error_message =
                  <<"Zhipu reported task completion, but translation results were missing.">>,
               !.progress_percentage = 100]

\* the branch of the callback for status COMPLETED; write is the outcome of
\* file_service.write_excel_with_translations ("ok" or "raise")
CompletedBranch(entry, kw, write) ==
    LET translations == IF "result" \in DOMAIN kw THEN kw.result ELSE <<>>
    IN IF translations # <<>>
       THEN LET c == [entry EXCEPT !.translations = translations,
                                   !.translated_texts_count = Len(translations),
                                   !.status = "completed",
                                   !.progress_percentage = 100]
            IN IF c.file_path_processed # "None"
               THEN IF write = "ok"
                    THEN [c EXCEPT !.output_file_path = "translated.xlsx"]
                    ELSE [c EXCEPT
                            !.error_message = Append(@,
                               "Results obtained, but failed to write output Excel file"),
                            !.status = "failed"]
               ELSE [c EXCEPT
                       !.error_message = Append(@,
                          "Results obtained, but failed to write output Excel file due to missing path info.")]
       ELSE [entry EXCEPT
               !.status = "failed",
               !.error_message =
                  <<"Zhipu reported task completion, but translation results were missing.">>,
               !.progress_percentage = 100]

\* a callback for an unknown job id creating a record for the job
IgnoreUnknownJob_Creates(store, job_id, status) ==
    [k \in DOMAIN store \cup {job_id} |->
        IF k \in DOMAIN store THEN store[k]
        ELSE [InitialJobData EXCEPT !.status = status]]

\* if job_id not in JOB_STORE: the callback logs and returns
IgnoreUnknownJob(store, job_id, status) == store

\* a FAILED callback without an error argument storing None
DefaultFailureMessage_None == <<>>

\* kwargs.get("error", ...) of the FAILED branch when no error was passed
DefaultFailureMessage == <<"Zhipu AI task failed without specific details.">>

\* the callback writing through one job entry shared by all the jobs
UpdateJobStoreCallback_Shared(store, job_id, status_from_zhipu, kw, write) ==
    IF job_id \notin DOMAIN store THEN IgnoreUnknownJob(store, job_id, status_from_zhipu)
    ELSE LET e1 == [store[job_id] EXCEPT !.status = status_from_zhipu]
             e2 == IF "progress" \in DOMAIN kw
                   THEN [e1 EXCEPT !.progress_percentage = kw.progress] ELSE e1
             e3 == IF "error" \in DOMAIN kw
                   THEN [e2 EXCEPT !.error_message = kw.error, !.status = "failed"]
                   ELSE e2
             e4 == IF "zhipu_batch_id" \in DOMAIN kw
                   THEN [e3 EXCEPT !.zhipu_batch_id_actual = kw.zhipu_batch_id] ELSE e3
             e5 == IF status_from_zhipu = "completed"
                   THEN CompletedBranch(e4, kw, write)
                   ELSE IF status_from_zhipu = "failed"
                        THEN [e4 EXCEPT
                                !.status = "failed",
                                !.error_message =
                                   IF "error" \in DOMAIN kw THEN kw.error
                                   ELSE DefaultFailureMessage]
                        ELSE e4
         IN [k \in DOMAIN store |-> e5]

\* _update_job_store_callback(job_id, status_from_zhipu, **kwargs): kw is
\* the record of the keyword arguments that were passed
UpdateJobStoreCallback(store, job_id, status_from_zhipu, kw, write) ==
    IF job_id \notin DOMAIN store THEN IgnoreUnknownJob(store, job_id, status_from_zhipu)
    ELSE LET e1 == [store[job_id] EXCEPT !.status = status_from_zhipu]
             e2 == IF "progress" \in DOMAIN kw
                   THEN [e1 EXCEPT !.progress_percentage = kw.progress] ELSE e1
             e3 == IF "error" \in DOMAIN kw
                   THEN [e2 EXCEPT !.error_message = kw.error, !.status = "failed"]
                   ELSE e2
             e4 == IF "zhipu_batch_id" \in DOMAIN kw
                   THEN [e3 EXCEPT !.zhipu_batch_id_actual = kw.zhipu_batch_id] ELSE e3
             e5 == IF status_from_zhipu = "completed"
                   THEN CompletedBranch(e4, kw, write)
                   ELSE IF status_from_zhipu = "failed"
                        THEN [e4 EXCEPT
                                !.status = "failed",
                                !.error_message =
                                   IF "error" \in DOMAIN kw THEN kw.error
                                   ELSE DefaultFailureMessage]
                        ELSE e4
         IN [store EXCEPT ![job_id] = e5]

\* the summary of the callbacks after one more callback with this status
NoteCallback(cbs, status) ==
    [terminal |-> IF status \in {"completed", "failed"} /\ cbs.terminal < CountCap
                  THEN cbs.terminal + 1 ELSE cbs.terminal,
     after_terminal |-> cbs.after_terminal \/ cbs.terminal > 0]

\* the job service also setting PROCESSING itself after the submission
StoreSubmissionInfo_SetsProcessing(store, info) ==
    [store EXCEPT ![JobId].zhipu_batch_id_actual = info.zhipu_batch_id,
                  ![JobId].message = info.message,
                  ![JobId].status = "processing"]

\* create_and_process_translation_job after translate_batch has returned
\* info: the submission details are stored and the job handle is returned
StoreSubmissionInfo(store, info) ==
    [store EXCEPT ![JobId].zhipu_batch_id_actual = info.zhipu_batch_id,
                  ![JobId].message = info.message]

ErrorInfo(batch) == [status |-> "error", message |-> "error", zhipu_batch_id |-> batch]

SuccessInfo ==
    [status |-> "success",
     message |-> "Task submitted to Zhipu AI for processing.",
     zhipu_batch_id |-> BatchId]

\* translate_batch reports FAILED through the callback and returns an error
\* dict; the job service stores the submission info and returns the handle
FailAndReturn(error, kw_batch, info_batch) ==
    /\ JOB_STORE' =
          StoreSubmissionInfo(
             UpdateJobStoreCallback(JOB_STORE, JobId, "failed",
                 IF kw_batch THEN [error |-> error, zhipu_batch_id |-> BatchId]
                             ELSE [error |-> error], "ok"),
             ErrorInfo(info_batch))
    /\ callbacks' = NoteCallback(callbacks, "failed")
    /\ jpc' = "done"
    /\ response' = "handle"

----------------------------------------------------------------------------
(* create_and_process_translation_job and translate_batch, one action per
   stretch of code between two awaited calls *)

\* len(original_texts) of the jobs that are run: the smallest job and the
\* largest one
JobLineCounts == {1, MaxLines}

JobEntry ==
    /\ TagIdle
    /\ ReconIdle
    /\ JOB_STORE = <<>>
    /\ api_key \in ApiKeys
    /\ jpc = "start"
    /\ attempts = 0
    /\ requests = NoRequests
    /\ callbacks = NoCallbacks
    /\ response = "none"
    /\ last_tick = NoTick
    /\ StoreIdle
    /\ PipeIdle

JobInit == JobEntry /\ http_error = "unobserved"

\* JOB_STORE[job_id] = initial_job_data, then the file lookup is awaited
CreateJob ==
    /\ jpc = "start"
    /\ JOB_STORE' = [j \in {JobId} |-> InitialJobData]
    /\ jpc' = "read_file"
    /\ UNCHANGED <<api_key, attempts, requests, callbacks, response>>
    /\ UNCHANGED <<tagVars, reconVars, storeVars, pipeVars, extractVars>>
    /\ UNCHANGED <<http_error, last_tick>>

\* the source file is missing or unreadable: the entry is marked FAILED and
\* an HTTPException reaches the caller
ReadFileFails ==
    /\ jpc = "read_file"
    /\ \/ JOB_STORE' = [JOB_STORE EXCEPT
                          ![JobId].status = "failed",
                          ![JobId].error_message = <<"Uploaded file not found">>]
       \/ JOB_STORE' = [JOB_STORE EXCEPT
                          ![JobId].file_path_processed = "source.xlsx",
                          ![JobId].status = "failed",
                          ![JobId].error_message = <<"Could not read column">>]
    /\ jpc' = "done"
    /\ response' = "error"
    /\ UNCHANGED <<api_key, attempts, requests, callbacks>>
    /\ UNCHANGED <<tagVars, reconVars, storeVars, pipeVars, extractVars>>
    /\ UNCHANGED <<http_error, last_tick>>

\* the empty column answered with an error while the record stays PENDING
ReadFileEmpty_StaysPending ==
    /\ jpc = "read_file"
    /\ JOB_STORE' = [JOB_STORE EXCEPT ![JobId].file_path_processed = "source.xlsx"]
    /\ texts' = 0
    /\ jpc' = "done"
    /\ response' = "error"
    /\ UNCHANGED <<api_key, attempts, requests, callbacks>>
    /\ UNCHANGED <<tagVars, manifest, artifact, reconciled, rpc, storeVars, pipeVars,
                   extractVars>>
    /\ UNCHANGED <<http_error, last_tick>>

\* the column holds no texts: FAILED, ValueError, HTTP 400 to the caller
ReadFileEmpty ==
    /\ jpc = "read_file"
    /\ JOB_STORE' = [JOB_STORE EXCEPT
                       ![JobId].file_path_processed = "source.xlsx",
                       ![JobId].status = "failed",
                       ![JobId].error_message =
                          <<"No texts found in the specified column of the Excel file.">>]
    /\ texts' = 0
    /\ jpc' = "done"
    /\ response' = "error"
    /\ UNCHANGED <<api_key, attempts, requests, callbacks>>
    /\ UNCHANGED <<tagVars, manifest, artifact, reconciled, rpc, storeVars, pipeVars, extractVars>>
    /\ UNCHANGED <<http_error, last_tick>>

\* the texts are read and translate_batch starts: it builds the manifest and
\* the token and posts the upload; a malformed credential makes
\* generate_zhipu_token raise, which the outer handler reports as FAILED
ReadFileAndSubmit ==
    /\ jpc = "read_file"
    /\ \E n \in JobLineCounts :
          /\ texts' = n
          /\ manifest' = BuildManifest(n)
          /\ LET store == [JOB_STORE EXCEPT
                             ![JobId].file_path_processed = "source.xlsx",
                             ![JobId].original_texts_count = n]
             IN IF KeyFormatOk(api_key)
                THEN /\ JOB_STORE' = store
                     /\ requests' = [requests EXCEPT !.upload = @ + 1]
                     /\ jpc' = "upload"
                     /\ UNCHANGED <<callbacks, response>>
                ELSE /\ JOB_STORE' =
                           StoreSubmissionInfo(
                              UpdateJobStoreCallback(store, JobId, "failed",
                                 [error |-> <<"Unexpected outer error in translate_batch",
                                              KeyFormatError>>],
                                 "ok"),
                              ErrorInfo("None"))
                     /\ callbacks' = NoteCallback(callbacks, "failed")
                     /\ jpc' = "done"
                     /\ response' = "handle"
                     /\ UNCHANGED requests
    /\ UNCHANGED <<api_key, attempts>>
    /\ UNCHANGED <<tagVars, artifact, reconciled, rpc, storeVars, pipeVars, extractVars>>
    /\ UNCHANGED <<http_error, last_tick>>

\* the upload did not succeed and is sent once more
UploadFails_Retry ==
    /\ jpc = "upload"
    /\ requests.upload < CountCap
    /\ requests' = [requests EXCEPT !.upload = @ + 1]
    /\ UNCHANGED <<JOB_STORE, api_key, jpc, attempts, callbacks, response>>
    /\ UNCHANGED <<tagVars, reconVars, storeVars, pipeVars, extractVars>>
    /\ UNCHANGED <<http_error, last_tick>>

\* the upload did not succeed (non-200, unparsable body, no file id, or the
\* request raised): FAILED, no job-creation call
UploadFails ==
    /\ jpc = "upload"
    /\ \E why \in {"Failed to upload JSONL file", "Failed to parse upload response",
                   "No file ID (uploaded_file_id) in response",
                   "Unexpected outer error in translate_batch"} :
          FailAndReturn(<<why>>, FALSE, "None")
    /\ UNCHANGED <<api_key, attempts, requests>>
    /\ UNCHANGED <<tagVars, reconVars, storeVars, pipeVars, extractVars>>
    /\ UNCHANGED <<http_error, last_tick>>

\* the upload returned a file id: one batch job is created per input line
UploadSucceeds_PerLine ==
    /\ jpc = "upload"
    /\ requests' = [requests EXCEPT !.create = @ + texts]
    /\ jpc' = "create"
    /\ UNCHANGED <<JOB_STORE, api_key, attempts, callbacks, response>>
    /\ UNCHANGED <<tagVars, reconVars, storeVars, pipeVars, extractVars>>
    /\ UNCHANGED <<http_error, last_tick>>

\* the upload returned a file id: the batch job is created from it
UploadSucceeds ==
    /\ jpc = "upload"
    /\ requests' = [requests EXCEPT !.create = @ + 1]
    /\ jpc' = "create"
    /\ UNCHANGED <<JOB_STORE, api_key, attempts, callbacks, response>>
    /\ UNCHANGED <<tagVars, reconVars, storeVars, pipeVars, extractVars>>
    /\ UNCHANGED <<http_error, last_tick>>

\* the job creation did not succeed (non-200, no batch id, or it raised)
CreateBatchFails ==
    /\ jpc = "create"
    /\ \E why \in {"Failed to create batch task",
                   "No batch ID (Zhipu Batch Job ID) received from Zhipu AI",
                   "Unexpected outer error in translate_batch"} :
          FailAndReturn(<<why>>, FALSE, "None")
    /\ UNCHANGED <<api_key, attempts, requests>>
    /\ UNCHANGED <<tagVars, reconVars, storeVars, pipeVars, extractVars>>
    /\ UNCHANGED <<http_error, last_tick>>

\* the batch job exists: attempts = 0 and the first status query is sent
CreateBatchSucceeds ==
    /\ jpc = "create"
    /\ attempts' = 0
    /\ requests' = [requests EXCEPT !.status = @ + 1]
    /\ jpc' = "poll"
    /\ UNCHANGED <<JOB_STORE, api_key, callbacks, response>>
    /\ UNCHANGED <<tagVars, reconVars, storeVars, pipeVars, extractVars>>
    /\ UNCHANGED <<http_error, last_tick>>

\* the loop goes on without attempts += 1
ContinueLoop_NoCount(store, cbs, reqs) ==
    /\ UNCHANGED <<attempts, response>>
    /\ JOB_STORE' = store
    /\ callbacks' = cbs
    /\ requests' = [reqs EXCEPT !.status = @ + 1]
    /\ jpc' = "poll"

\* the end of a loop iteration that did not return: asyncio.sleep,
\* attempts += 1, then either the next status query or, when the loop
\* condition fails, the timeout report and the return
ContinueLoop(store, cbs, reqs) ==
    /\ attempts' = attempts + 1
    /\ IF attempts + 1 < MAX_POLLING_ATTEMPTS
       THEN /\ JOB_STORE' = store
            /\ callbacks' = cbs
            /\ requests' = [reqs EXCEPT !.status = @ + 1]
            /\ jpc' = "poll"
            /\ UNCHANGED response
       ELSE /\ JOB_STORE' =
                  StoreSubmissionInfo(
                     UpdateJobStoreCallback(store, JobId, "failed",
                        [error |-> <<"Polling timeout">>, zhipu_batch_id |-> BatchId],
                        "ok"),
                     ErrorInfo(BatchId))
            /\ callbacks' = NoteCallback(cbs, "failed")
            /\ requests' = reqs
            /\ jpc' = "done"
            /\ response' = "handle"

\* how a status query can fail: the answer is HTTP 5xx or 429, it is a
\* client error 4xx other than 429, or there is no HTTP error status ("none":
\* the request raised, or the body of a 200 answer could not be read)
StatusQueryFailures == {"5xx_or_429", "4xx", "none"}

\* http_error is a history variable: a run that starts it at "unobserved"
\* keeps it there, any other run records the latest status query in it
Observe(answer) == IF http_error = "unobserved" THEN "unobserved" ELSE answer

\* last_tick is a history variable of the same runs
Tick(status, errors, calls) ==
    IF http_error = "unobserved" THEN NoTick
    ELSE [status |-> status, errors |-> errors, calls |-> calls]

\* the status query failed and the failure ends the polling with FAILED
PollNoStatus_Ends ==
    /\ jpc = "poll"
    /\ FailAndReturn(<<"Polling failed">>, TRUE, BatchId)
    /\ UNCHANGED <<api_key, attempts, requests>>
    /\ UNCHANGED <<tagVars, reconVars, storeVars, pipeVars, extractVars>>
    /\ \E answer \in StatusQueryFailures : http_error' = Observe(answer)
    /\ last_tick' = Tick("none", "none", 1)

\* the status query raised, returned a status code other than 200, or a
\* body that is not JSON: no callback, the loop goes on
PollNoStatus ==
    /\ jpc = "poll"
    /\ ContinueLoop(JOB_STORE, callbacks, requests)
    /\ UNCHANGED api_key
    /\ UNCHANGED <<tagVars, reconVars, storeVars, pipeVars, extractVars>>
    /\ \E answer \in StatusQueryFailures : http_error' = Observe(answer)
    /\ last_tick' = Tick("none", "none", 0)

\* progress_percentage = int((completed_reqs / total_reqs) * 100), 0 when
\* the response has no request_counts or total is 0
ProgressChoices == {0, 50, 100}

\* a status other than completed, failed and cancelled: one PROCESSING
\* callback with the progress, then the loop goes on
PollInProgress ==
    /\ jpc = "poll"
    /\ \E progress \in ProgressChoices :
          ContinueLoop(
             UpdateJobStoreCallback(JOB_STORE, JobId, "processing",
                [zhipu_batch_id |-> BatchId, progress |-> progress], "ok"),
             NoteCallback(callbacks, "processing"), requests)
    /\ UNCHANGED api_key
    /\ UNCHANGED <<tagVars, reconVars, storeVars, pipeVars, extractVars>>
    /\ http_error' = Observe("none")
    /\ last_tick' = Tick("non_terminal", "none", 1)

\* status completed without output_file_id: FAILED is reported and the
\* download is attempted all the same
PollCompletedNoOutput_Download ==
    /\ jpc = "poll"
    /\ JOB_STORE' = UpdateJobStoreCallback(JOB_STORE, JobId, "failed",
                       [error |-> <<"Batch job completed but no output_file_id found.">>,
                        zhipu_batch_id |-> BatchId], "ok")
    /\ callbacks' = NoteCallback(callbacks, "failed")
    /\ requests' = [requests EXCEPT
                      !.download = IF @ < CountCap THEN @ + 1 ELSE @]
    /\ jpc' = "download"
    /\ UNCHANGED <<api_key, attempts, response>>
    /\ UNCHANGED <<tagVars, reconVars, storeVars, pipeVars, extractVars>>
    /\ http_error' = Observe("none")
    /\ last_tick' = Tick("completed", "none", 1)

\* status completed without output_file_id: FAILED and return
PollCompletedNoOutput ==
    /\ jpc = "poll"
    /\ FailAndReturn(<<"Batch job completed but no output_file_id found.">>,
                     TRUE, BatchId)
    /\ UNCHANGED <<api_key, attempts, requests>>
    /\ UNCHANGED <<tagVars, reconVars, storeVars, pipeVars, extractVars>>
    /\ http_error' = Observe("none")
    /\ last_tick' = Tick("completed", "none", 1)

\* status completed with an output_file_id: no callback yet, the result
\* file is requested
PollCompletedDownload ==
    /\ jpc = "poll"
    /\ requests' = [requests EXCEPT
                      !.download = IF @ < CountCap THEN @ + 1 ELSE @]
    /\ jpc' = "download"
    /\ UNCHANGED <<JOB_STORE, api_key, attempts, callbacks, response>>
    /\ UNCHANGED <<tagVars, reconVars, storeVars, pipeVars, extractVars>>
    /\ http_error' = Observe("none")
    /\ last_tick' = Tick("completed", "none", 0)

\* status failed or cancelled: a first FAILED callback with the progress,
\* then the error detail is read from the response.  errors is "absent",
\* holds the provider's "message", or is "unreadable" (null, or an empty
\* data list): reading it raises, the generic handler sleeps and the loop
\* goes on.
PollFailed ==
    /\ jpc = "poll"
    /\ \E progress \in ProgressChoices, errors \in {"absent", "message", "unreadable"} :
          LET store1 == UpdateJobStoreCallback(JOB_STORE, JobId, "failed",
                           [zhipu_batch_id |-> BatchId, progress |-> progress], "ok")
              cbs1 == NoteCallback(callbacks, "failed")
              detail == IF errors = "message" THEN "provider diagnostic"
                        ELSE "No specific error message from Zhipu."
          IN /\ last_tick' = Tick("failed", errors,
                                   IF errors = "unreadable" THEN 1 ELSE 2)
             /\ IF errors = "unreadable"
                THEN ContinueLoop(store1, cbs1, requests)
                ELSE /\ JOB_STORE' =
                           StoreSubmissionInfo(
                              UpdateJobStoreCallback(store1, JobId, "failed",
                                 [error |-> <<"Batch job failed or cancelled", detail>>,
                                  zhipu_batch_id |-> BatchId], "ok"),
                              ErrorInfo(BatchId))
                     /\ callbacks' = NoteCallback(cbs1, "failed")
                     /\ jpc' = "done"
                     /\ response' = "handle"
                     /\ UNCHANGED <<attempts, requests>>
    /\ UNCHANGED api_key
    /\ UNCHANGED <<tagVars, reconVars, storeVars, pipeVars, extractVars>>
    /\ http_error' = Observe("none")

\* the download answered with a client error other than 429: FAILED, return
DownloadClientError ==
    /\ jpc = "download"
    /\ FailAndReturn(<<"Polling failed">>, TRUE, BatchId)
    /\ UNCHANGED <<api_key, attempts, requests>>
    /\ UNCHANGED <<tagVars, reconVars, storeVars, pipeVars, extractVars>>
    /\ UNCHANGED <<http_error, last_tick>>

\* the download answered 5xx or 429, or the request raised: the loop goes on
DownloadRetry ==
    /\ jpc = "download"
    /\ ContinueLoop(JOB_STORE, callbacks, requests)
    /\ UNCHANGED api_key
    /\ UNCHANGED <<tagVars, reconVars, storeVars, pipeVars, extractVars>>
    /\ UNCHANGED <<http_error, last_tick>>

\* the result files the provider returns to a job
JobResultFiles(n) ==
    { [i \in 1..n |-> [kind |-> "success", custom_id |-> RequestId(i),
                       content |-> Tr(i)]],
      <<>>,
      <<[kind |-> "success", custom_id |-> Cid("int", 7), content |-> Tr(1)]>> }

\* the result file arrived: it is reconciled; when that raises the generic
\* handler sleeps and the loop goes on, otherwise COMPLETED is reported with
\* the translations (the callback writes the output file) and
\* translate_batch returns success
DownloadDone ==
    /\ jpc = "download"
    /\ \E file \in JobResultFiles(texts), write \in {"ok", "raise"} :
          LET r == DownloadAndProcessResults(file)
          IN /\ artifact' = file
             /\ reconciled' = r
             /\ IF r.raised
                THEN ContinueLoop(JOB_STORE, callbacks, requests)
                ELSE /\ JOB_STORE' =
                           StoreSubmissionInfo(
                              UpdateJobStoreCallback(JOB_STORE, JobId, "completed",
                                 [result |-> r.list, zhipu_batch_id |-> BatchId,
                                  progress |-> 100], write),
                              SuccessInfo)
                     /\ callbacks' = NoteCallback(callbacks, "completed")
                     /\ jpc' = "done"
                     /\ response' = "handle"
                     /\ UNCHANGED <<attempts, requests>>
    /\ UNCHANGED api_key
    /\ UNCHANGED <<tagVars, texts, manifest, rpc, storeVars, pipeVars, extractVars>>
    /\ UNCHANGED <<http_error, last_tick>>

JobNext ==
    \/ CreateJob
    \/ ReadFileFails
    \/ ReadFileEmpty
    \/ ReadFileAndSubmit
    \/ UploadFails
    \/ UploadSucceeds
    \/ CreateBatchFails
    \/ CreateBatchSucceeds
    \/ PollNoStatus
    \/ PollInProgress
    \/ PollCompletedNoOutput
    \/ PollCompletedDownload
    \/ PollFailed
    \/ DownloadClientError
    \/ DownloadRetry
    \/ DownloadDone

----------------------------------------------------------------------------
(* background_poll_status: the stand-alone poller of zhipu_ai_service *)

\* the poller is started for a job of the store whose batch exists
BgEntry ==
    /\ TagIdle
    /\ artifact = <<>>
    /\ reconciled = [raised |-> FALSE, list |-> <<>>]
    /\ rpc = "idle"
    /\ \E n \in JobLineCounts :
          /\ texts = n
          /\ manifest = BuildManifest(n)
          /\ JOB_STORE = [j \in {JobId} |->
                            [InitialJobData EXCEPT
                                !.file_path_processed = "source.xlsx",
                                !.original_texts_count = n]]
    /\ api_key \in ApiKeys
    /\ jpc = "bg_start"
    /\ attempts = 0
    /\ requests = NoRequests
    /\ callbacks = NoCallbacks
    /\ response = "none"
    /\ last_tick = NoTick
    /\ StoreIdle
    /\ PipeIdle

BgInit == BgEntry /\ http_error = "unobserved"

\* a FAILED callback that ends the poller (break, or the outer handler)
BgFailAndExit(store, cbs, error) ==
    /\ JOB_STORE' = UpdateJobStoreCallback(store, JobId, "failed",
                       [error |-> error, zhipu_batch_id |-> BatchId], "ok")
    /\ callbacks' = NoteCallback(cbs, "failed")
    /\ jpc' = "done"

\* the head of a loop iteration: attempts += 1 and the status query
BgNextAttempt(reqs) ==
    /\ attempts' = attempts + 1
    /\ requests' = [reqs EXCEPT !.status = @ + 1]
    /\ jpc' = "bg_poll"

\* the token is built (a malformed credential raises into the outer
\* handler, which reports FAILED) and the first iteration starts
BgStart ==
    /\ jpc = "bg_start"
    /\ IF KeyFormatOk(api_key)
       THEN /\ BgNextAttempt(requests)
            /\ UNCHANGED <<JOB_STORE, callbacks>>
       ELSE /\ BgFailAndExit(JOB_STORE, callbacks,
                             <<"Critical unhandled error in poller">>)
            /\ UNCHANGED <<attempts, requests>>
    /\ UNCHANGED <<api_key, response>>
    /\ UNCHANGED <<tagVars, reconVars, storeVars, pipeVars, extractVars>>
    /\ UNCHANGED <<http_error, last_tick>>

\* the tail of an iteration that did not break: sleep and iterate again
\* while attempts < MAX_POLLING_ATTEMPTS, else the timeout report, after
\* which the loop condition fails
BgEndOfIteration(store, cbs, reqs) ==
    IF attempts < MAX_POLLING_ATTEMPTS
    THEN /\ JOB_STORE' = store
         /\ callbacks' = cbs
         /\ BgNextAttempt(reqs)
    ELSE /\ BgFailAndExit(store, cbs, <<"Polling timeout">>)
         /\ requests' = reqs
         /\ UNCHANGED attempts

\* the query raised, answered 5xx or 429, or the body could not be read
BgPollNoStatus ==
    /\ jpc = "bg_poll"
    /\ BgEndOfIteration(JOB_STORE, callbacks, requests)
    /\ UNCHANGED <<api_key, response>>
    /\ UNCHANGED <<tagVars, reconVars, storeVars, pipeVars, extractVars>>
    /\ \E answer \in StatusQueryFailures \ {"4xx"} : http_error' = Observe(answer)
    /\ last_tick' = Tick("none", "none", 0)

\* raise_for_status on a client error other than 429: FAILED and break
BgPollClientError ==
    /\ jpc = "bg_poll"
    /\ BgFailAndExit(JOB_STORE, callbacks, <<"Zhipu API client error">>)
    /\ UNCHANGED <<api_key, attempts, requests, response>>
    /\ UNCHANGED <<tagVars, reconVars, storeVars, pipeVars, extractVars>>
    /\ http_error' = Observe("4xx")
    /\ last_tick' = Tick("none", "none", 1)

\* current_progress of the remote statuses validating, queued, running,
\* finalizing, and 0 for any other status
BgProgressChoices == {0, 10, 20, 50, 90}

\* a status other than completed, failed, cancelled: PROCESSING is reported
\* on the first attempt, and later only for a known remote status
BgPollInProgress ==
    /\ jpc = "bg_poll"
    /\ \E current_progress \in BgProgressChoices :
          LET report == attempts = 1 \/ current_progress > 0
              progress == IF current_progress > 0 THEN current_progress ELSE 5
          IN /\ last_tick' = Tick("non_terminal", "none", IF report THEN 1 ELSE 0)
             /\ BgEndOfIteration(
                   IF report
                   THEN UpdateJobStoreCallback(JOB_STORE, JobId, "processing",
                           [progress |-> progress, zhipu_batch_id |-> BatchId], "ok")
                   ELSE JOB_STORE,
                   IF report THEN NoteCallback(callbacks, "processing") ELSE callbacks,
                   requests)
    /\ UNCHANGED <<api_key, response>>
    /\ UNCHANGED <<tagVars, reconVars, storeVars, pipeVars, extractVars>>
    /\ http_error' = Observe("none")

BgPollCompletedNoOutput ==
    /\ jpc = "bg_poll"
    /\ BgFailAndExit(JOB_STORE, callbacks,
                     <<"Zhipu batch job completed but no output_file_id found">>)
    /\ UNCHANGED <<api_key, attempts, requests, response>>
    /\ UNCHANGED <<tagVars, reconVars, storeVars, pipeVars, extractVars>>
    /\ http_error' = Observe("none")
    /\ last_tick' = Tick("completed", "none", 1)

BgPollCompletedDownload ==
    /\ jpc = "bg_poll"
    /\ requests' = [requests EXCEPT
                      !.download = IF @ < CountCap THEN @ + 1 ELSE @]
    /\ jpc' = "bg_download"
    /\ UNCHANGED <<JOB_STORE, api_key, attempts, callbacks, response>>
    /\ UNCHANGED <<tagVars, reconVars, storeVars, pipeVars, extractVars>>
    /\ http_error' = Observe("none")
    /\ last_tick' = Tick("completed", "none", 0)

\* status failed or cancelled: errors "absent" or with an empty data list
\* gives the plain message, "message" adds the provider's detail, and a
\* null errors makes .get raise, which the generic handler passes over
BgPollFailed ==
    /\ jpc = "bg_poll"
    /\ \E errors \in {"absent", "message", "unreadable"} :
          /\ last_tick' = Tick("failed", errors,
                                IF errors = "unreadable" THEN 0 ELSE 1)
          /\ IF errors = "unreadable"
             THEN BgEndOfIteration(JOB_STORE, callbacks, requests)
             ELSE /\ BgFailAndExit(JOB_STORE, callbacks,
                        IF errors = "message"
                        THEN <<"Zhipu batch job failed or cancelled", "provider diagnostic">>
                        ELSE <<"Zhipu batch job failed or cancelled">>)
                  /\ UNCHANGED <<attempts, requests>>
    /\ UNCHANGED <<api_key, response>>
    /\ UNCHANGED <<tagVars, reconVars, storeVars, pipeVars, extractVars>>
    /\ http_error' = Observe("none")

BgDownloadClientError ==
    /\ jpc = "bg_download"
    /\ BgFailAndExit(JOB_STORE, callbacks, <<"Zhipu API client error">>)
    /\ UNCHANGED <<api_key, attempts, requests, response>>
    /\ UNCHANGED <<tagVars, reconVars, storeVars, pipeVars, extractVars>>
    /\ UNCHANGED <<http_error, last_tick>>

BgDownloadRetry ==
    /\ jpc = "bg_download"
    /\ BgEndOfIteration(JOB_STORE, callbacks, requests)
    /\ UNCHANGED <<api_key, response>>
    /\ UNCHANGED <<tagVars, reconVars, storeVars, pipeVars, extractVars>>
    /\ UNCHANGED <<http_error, last_tick>>

BgDownloadDone ==
    /\ jpc = "bg_download"
    /\ \E file \in JobResultFiles(texts), write \in {"ok", "raise"} :
          LET r == DownloadAndProcessResults(file)
          IN /\ artifact' = file
             /\ reconciled' = r
             /\ IF r.raised
                THEN BgEndOfIteration(JOB_STORE, callbacks, requests)
                ELSE /\ JOB_STORE' =
                           UpdateJobStoreCallback(JOB_STORE, JobId, "completed",
                              [progress |-> 100, result |-> r.list,
                               zhipu_batch_id |-> BatchId], write)
                     /\ callbacks' = NoteCallback(callbacks, "completed")
                     /\ jpc' = "done"
                     /\ UNCHANGED <<attempts, requests>>
    /\ UNCHANGED <<api_key, response>>
    /\ UNCHANGED <<tagVars, texts, manifest, rpc, storeVars, pipeVars, extractVars>>
    /\ UNCHANGED <<http_error, last_tick>>

BgNext ==
    \/ BgStart
    \/ BgPollNoStatus
    \/ BgPollClientError
    \/ BgPollInProgress
    \/ BgPollCompletedNoOutput
    \/ BgPollCompletedDownload
    \/ BgPollFailed
    \/ BgDownloadClientError
    \/ BgDownloadRetry
    \/ BgDownloadDone

----------------------------------------------------------------------------
(* The job pipeline and the stand-alone poller as one system: a behaviour
   starts at either entry point *)

PollersInit == JobInit \/ BgInit

PollersNext == JobNext \/ BgNext

JobSpec == PollersInit /\ [][PollersNext]_vars

\* the event loop resumes a coroutine whenever the call it awaits has
\* returned or raised, and every awaited call is bounded by a timeout
FairJobSpec == JobSpec /\ WF_vars(PollersNext)

\* the same runs with the answers to the status queries recorded
TickInit == (JobEntry \/ BgEntry) /\ http_error = "none"

TickSpec == TickInit /\ [][PollersNext]_vars


----------------------------------------------------------------------------
(* Properties of the tag protection engine (checked under TagSpec) *)

TagToken == <<"T", "A", "G">>

\* two spans [start_pos, end_pos) intersect
SpanOverlap(a, b) == a.start_pos < b.end_pos /\ a.end_pos > b.start_pos

\* the candidate c is an entry of the returned tag_map
Selected(c) ==
    \E ph \in DOMAIN tag_map :
       /\ tag_map[ph].start_pos = c.start_pos
       /\ tag_map[ph].end_pos = c.end_pos
       /\ tag_map[ph].pattern_name = c.pattern_name

\* c comes before a in the (-priority, start_pos) order
ComesBefore(c, a) ==
    \/ c.priority > a.priority
    \/ c.priority = a.priority /\ c.start_pos < a.start_pos

Candidates == Range(all_tags)

\* no two candidate matches of the registry intersect
CandidatesDisjoint ==
    \A i, j \in 1..Len(all_tags) : i # j => ~SpanOverlap(all_tags[i], all_tags[j])

\* the placeholder tokens "__TAG<digits>__" that occur in t, left to right:
\* the position (1-based) and the number of each
TokenAt(t, i) ==
    /\ StartsWith(t, i, <<"_", "_", "T", "A", "G">>)
    /\ RunEnd(t, i + 5, Digits) >= i + 5
    /\ StartsWith(t, RunEnd(t, i + 5, Digits) + 1, <<"_", "_">>)

TokenNumber(t, i) == ParseInt(SubSeq(t, i + 5, RunEnd(t, i + 5, Digits)))

RECURSIVE TokensFrom(_, _)
TokensFrom(t, i) ==
    IF i > Len(t) THEN <<>>
    ELSE IF TokenAt(t, i)
         THEN <<[pos |-> i, num |-> TokenNumber(t, i)]>> \o TokensFrom(t, i + 1)
         ELSE TokensFrom(t, i + 1)

Tokens(t) == TokensFrom(t, 1)

\* the selected tags in the order of their start_pos
SelectedByStart ==
    LET keys == DOMAIN tag_map
        Before(p, q) == tag_map[p].start_pos < tag_map[q].start_pos
    IN [k \in 1..Cardinality(keys) |->
          tag_map[CHOOSE p \in keys :
                     Cardinality({q \in keys : Before(q, p)}) = k - 1]]

\* the tokens of the protected text are exactly one per selected tag, their
\* numbers increase from left to right, and the k-th token is the
\* placeholder of the k-th selected span by start position
TokensFollowSource ==
    LET toks == Tokens(protected_text)
        n == Cardinality(DOMAIN tag_map)
    IN /\ Len(toks) = n
       /\ \A k \in 1..(Len(toks) - 1) : toks[k].num < toks[k + 1].num
       /\ Cardinality({tag_map[p].start_pos : p \in DOMAIN tag_map}) = n
       /\ \A k \in 1..Len(toks) :
             /\ k <= n
             /\ PlaceholderNumber(SelectedByStart[k].placeholder) = toks[k].num
             /\ SelectedByStart[k].placeholder \in DOMAIN tag_map
             /\ tag_map[SelectedByStart[k].placeholder] = SelectedByStart[k]

\* C1 as stated: for a text whose registry matches do not overlap,
\* restore_tags(protect_tags(text)) is the text, when the protected text is
\* not altered in between.
C1_RoundTrip_Original ==
    (tpc = "restored" /\ translated_text = protected_text /\ CandidatesDisjoint)
        => restored_text = text

\* C1 amended: for a text whose registry matches do not overlap and which
\* does not contain the character sequence "TAG" (so that no placeholder
\* token, whole or partial, is part of the source),
\* restore_tags(protect_tags(text)) is the text, when the protected text is
\* not altered in between.
C1_RoundTrip ==
    (/\ tpc = "restored"
     /\ translated_text = protected_text
     /\ CandidatesDisjoint
     /\ ~Contains(text, TagToken))
        => restored_text = text

C1_Witness ==
    /\ tpc = "restored"
    /\ translated_text = protected_text
    /\ CandidatesDisjoint
    /\ ~Contains(text, TagToken)
    /\ Cardinality(DOMAIN tag_map) >= 2
    /\ protected_text # text
    /\ restored_text = text

\* C7 as stated: of two overlapping candidates with different priorities,
\* protect keeps the one of higher priority and discards the other.
C7_HigherWins_Original ==
    tpc = "protected" =>
        \A a, b \in Candidates :
            (SpanOverlap(a, b) /\ a.priority > b.priority)
                => (Selected(a) /\ ~Selected(b))

\* C7 amended: of two overlapping candidates with different priorities,
\* protect never keeps the lower one together with the higher one, and it
\* keeps the higher one unless that match itself overlaps a selected match
\* that comes before it in the (-priority, start) order; every selected
\* entry is a whole candidate match (nothing is truncated).
C7_HigherWins ==
    tpc = "protected" =>
        /\ \A a, b \in Candidates :
              (SpanOverlap(a, b) /\ a.priority > b.priority) =>
                 /\ Selected(a) => ~Selected(b)
                 /\ ~Selected(a) =>
                       \E c \in Candidates :
                          Selected(c) /\ ComesBefore(c, a) /\ SpanOverlap(c, a)
        /\ \A ph \in DOMAIN tag_map :
              /\ \E c \in Candidates :
                    /\ c.start_pos = tag_map[ph].start_pos
                    /\ c.end_pos = tag_map[ph].end_pos
                    /\ c.pattern_name = tag_map[ph].pattern_name
              /\ tag_map[ph].original_tag
                    = Slice(text, tag_map[ph].start_pos, tag_map[ph].end_pos)

\* a higher-priority match wins over a lower one, and in the same text a
\* third match knocks a higher-priority match out
C7_Witness ==
    /\ tpc = "protected"
    /\ \E a, b \in Candidates :
          /\ SpanOverlap(a, b) /\ a.priority > b.priority
          /\ Selected(a) /\ ~Selected(b)
    /\ \E a, b \in Candidates :
          /\ SpanOverlap(a, b) /\ a.priority > b.priority
          /\ ~Selected(a) /\ Selected(b)

\* C8: the spans of any two distinct entries of the returned tag_map do
\* not intersect.
C8_SelectedDisjoint ==
    tpc = "protected" =>
        \A p, q \in DOMAIN tag_map :
            p # q => ~SpanOverlap(tag_map[p], tag_map[q])

\* several tags were selected and at least one candidate was rejected
C8_Witness ==
    /\ tpc = "protected"
    /\ Cardinality(DOMAIN tag_map) >= 3
    /\ Len(all_tags) > Cardinality(DOMAIN tag_map)

\* C9 as stated: in the text returned by protect the placeholder tokens
\* appear in strictly increasing numeric order from left to right, the
\* k-th one standing for the k-th selected span by start position.
C9_PlaceholderOrder_Original ==
    tpc = "protected" => TokensFollowSource

\* C9 amended: the same, for a source text that does not contain the
\* character sequence "TAG" (no placeholder token, whole or partial, is
\* part of the source).
C9_PlaceholderOrder ==
    (tpc = "protected" /\ ~Contains(text, TagToken)) => TokensFollowSource

\* a text whose selection order (by priority) differs from its position order
C9_Witness ==
    /\ tpc = "protected"
    /\ ~Contains(text, TagToken)
    /\ Cardinality(DOMAIN tag_map) >= 3
    /\ \E p, q \in DOMAIN tag_map :
          /\ tag_map[p].priority < tag_map[q].priority
          /\ tag_map[p].start_pos < tag_map[q].start_pos
    /\ TokensFollowSource

\* C11: a custom pattern of invalid syntax is skipped without raising: the
\* call returns what the built-in patterns alone give for the text, every
\* selected built-in match replaced by its placeholder.
C11_InvalidPatternSkipped ==
    (tpc = "protected" /\ custom_patterns = "custom_invalid" /\ text # <<>>) =>
        LET tags == FindNonOverlappingTags(text)
        IN /\ protected_text = SubstituteTags(text, tags)
           /\ tag_map = TagMapOf(tags)
           /\ \A k \in 1..Len(tags) :
                 /\ Contains(protected_text, tags[k].placeholder)
                 /\ tag_map[tags[k].placeholder].original_tag
                       = Slice(text, tags[k].start_pos, tags[k].end_pos)

\* an invalid custom pattern together with a text that holds several tags
C11_Witness ==
    /\ tpc = "protected"
    /\ custom_patterns = "custom_invalid"
    /\ Cardinality(DOMAIN tag_map) >= 2
    /\ protected_text # text

\* the matches of the custom pattern in the text
CustomMatches ==
    Range(FindIter([name |-> custom_patterns, priority |-> CustomPriority], text, 1))

\* C10: with a valid custom pattern, every match of that pattern that
\* overlaps no candidate of higher priority is replaced by a placeholder.
C10_CustomPatternApplied ==
    (tpc = "protected" /\ custom_patterns # "none" /\ Compiles(custom_patterns)) =>
        \A m \in CustomMatches :
            (\A c \in Candidates : c.priority > m.priority => ~SpanOverlap(c, m))
                => Selected(m)

\* number of positions of t at which pat occurs
Occurrences(t, pat) ==
    Cardinality({i \in 1..Len(t) : StartsWith(t, i, pat)})

\* C30 as stated: in the protected text returned by protect, every
\* placeholder that is a key of the returned tag_map occurs at most once.
C30_PlaceholderOnce_Original ==
    tpc = "protected" =>
        \A ph \in DOMAIN tag_map : Occurrences(protected_text, ph) <= 1

\* C30 amended: the same, for a source text that does not contain the
\* character sequence "TAG" (no placeholder token, whole or partial, is
\* part of the source).
C30_PlaceholderOnce ==
    (tpc = "protected" /\ ~Contains(text, TagToken)) =>
        \A ph \in DOMAIN tag_map : Occurrences(protected_text, ph) <= 1

\* several tags were replaced, each placeholder standing once in the text
C30_Witness ==
    /\ tpc = "protected"
    /\ ~Contains(text, TagToken)
    /\ Cardinality(DOMAIN tag_map) >= 2
    /\ \A ph \in DOMAIN tag_map : Occurrences(protected_text, ph) = 1

----------------------------------------------------------------------------
(* restore_tags applied twice with a tag_map that protect_tags produced *)

\* the source texts whose tag_maps are handed to restore_tags: the texts of
\* up to two pieces, and the texts with a bracketed placeholder
SourceTexts ==
    {Flatten(l) : l \in PieceLists(2)}
       \cup {<<"[">> \o Placeholder(0) \o <<"]">>,
             <<"<", "b", ">", "[">> \o Placeholder(1) \o <<"]">>}

TwiceInit ==
    /\ ReconIdle
    /\ JobIdle
    /\ text \in SourceTexts
    /\ custom_patterns = "none"
    /\ tpc = "input"
    /\ all_tags = <<>>
    /\ protected_text = <<>>
    /\ tag_map = <<>>
    /\ translated_text = <<>>
    /\ restored_text = <<>>

\* the translation step returns any text
TranslateAny ==
    /\ tpc = "protected"
    /\ translated_text' \in RestoreTexts
    /\ tpc' = "translated"
    /\ UNCHANGED <<text, custom_patterns, all_tags, protected_text, tag_map,
                   restored_text>>
    /\ UNCHANGED <<reconVars, jobVars, storeVars, pipeVars, extractVars>>

\* restore_tags once more, on its own result
RestoreAgain ==
    /\ tpc = "restored"
    /\ translated_text' = restored_text
    /\ restored_text' = RestoreTags(restored_text, tag_map)
    /\ tpc' = "restored_again"
    /\ UNCHANGED <<text, custom_patterns, all_tags, protected_text, tag_map>>
    /\ UNCHANGED <<reconVars, jobVars, storeVars, pipeVars, extractVars>>

TwiceNext == Protect \/ TranslateAny \/ Restore \/ RestoreAgain

TwiceSpec == TwiceInit /\ [][TwiceNext]_vars

\* C31 as stated: restoring is idempotent, for any tag_map produced by
\* protect and any text.
C31_RestoreIdempotent_Original ==
    tpc = "restored_again" => restored_text = translated_text

\* C31 amended: restoring is idempotent, for any text and any tag_map
\* produced by protect from a source text that does not contain the
\* character sequence "TAG".
C31_RestoreIdempotent ==
    (tpc = "restored_again" /\ ~Contains(text, TagToken))
        => restored_text = translated_text

\* a text with a placeholder of the map and placeholder-like characters
\* around it was restored twice, the first pass replacing the placeholder
C31_Witness ==
    /\ tpc = "restored_again"
    /\ ~Contains(text, TagToken)
    /\ DOMAIN tag_map # {}
    /\ \E ph \in DOMAIN tag_map : ~Contains(translated_text, ph)
    /\ Contains(translated_text, TagToken)
    /\ Contains(translated_text, <<"<", "b", ">">>)
    /\ restored_text = translated_text

----------------------------------------------------------------------------
(* Properties of the greedy selection (checked under TagSpec) *)

\* candidate k of the sorted candidates was selected: the tag_map holds it
IsSelected(k) ==
    \E ph \in DOMAIN tag_map :
       /\ tag_map[ph].start_pos = all_tags[k].start_pos
       /\ tag_map[ph].end_pos = all_tags[k].end_pos
       /\ tag_map[ph].pattern_name = all_tags[k].pattern_name

\* the spans of two matches share a character
SpansMeet(a, b) == a.start_pos < b.end_pos /\ b.start_pos < a.end_pos

\* C40: the greedy selection in protect drops a candidate only for a
\* conflict: every candidate match that is not selected overlaps a selected
\* match that precedes it in the (-priority, start) order, so the selected
\* set is maximal (no unselected candidate is disjoint from all selected
\* spans).
C40_GreedyMaximal ==
    tpc # "input" =>
        \A k \in DOMAIN all_tags :
           ~IsSelected(k) =>
              \E m \in 1..(k - 1) :
                 /\ IsSelected(m)
                 /\ SpansMeet(all_tags[k], all_tags[m])
                 /\ \/ all_tags[m].priority > all_tags[k].priority
                    \/ /\ all_tags[m].priority = all_tags[k].priority
                       /\ all_tags[m].start_pos <= all_tags[k].start_pos

\* a text with selected tags next to each other and candidates that were
\* dropped
C40_Witness ==
    /\ tpc = "protected"
    /\ Cardinality(DOMAIN tag_map) >= 2
    /\ \E k \in DOMAIN all_tags : ~IsSelected(k)
    /\ \E k, m \in DOMAIN all_tags :
          /\ IsSelected(k) /\ IsSelected(m)
          /\ all_tags[k].end_pos = all_tags[m].start_pos

----------------------------------------------------------------------------

(* Properties of restore_tags (checked under RestoreSpec) *)

\* a key of the form __TAG<n>__
IsPlaceholder(ph) ==
    /\ Len(ph) >= 8
    /\ SubSeq(ph, 1, 5) = <<"_", "_", "T", "A", "G">>
    /\ SubSeq(ph, Len(ph) - 1, Len(ph)) = <<"_", "_">>
    /\ \A k \in 6..(Len(ph) - 2) : ph[k] \in Digits

\* the keys of map that occur in t at position i
KeysAt(t, i, map) == {ph \in DOMAIN map : StartsWith(t, i, ph)}

\* what the claim describes: reading t from the left, every occurrence of a
\* key of map gives way to that key's original tag and every other character
\* stays as it is
RECURSIVE ExpectedRestoreFrom(_, _, _)
ExpectedRestoreFrom(t, i, map) ==
    IF i > Len(t) THEN <<>>
    ELSE IF KeysAt(t, i, map) # {}
         THEN LET ph == CHOOSE k \in KeysAt(t, i, map) :
                            \A j \in KeysAt(t, i, map) : Len(j) <= Len(k)
              IN map[ph].original_tag \o ExpectedRestoreFrom(t, i + Len(ph), map)
         ELSE <<t[i]>> \o ExpectedRestoreFrom(t, i + 1, map)

ExpectedRestore(t, map) == ExpectedRestoreFrom(t, 1, map)

\* the characters a placeholder is spelled with, apart from the digits
MarkerChars == {"_", "T"}

\* t is made of occurrences of keys of map and of characters that are
\* neither "_" nor "T"
RECURSIVE PlainOutsideKeysFrom(_, _, _)
PlainOutsideKeysFrom(t, i, map) ==
    IF i > Len(t) THEN TRUE
    ELSE IF KeysAt(t, i, map) # {}
         THEN LET ph == CHOOSE k \in KeysAt(t, i, map) : TRUE
              IN PlainOutsideKeysFrom(t, i + Len(ph), map)
         ELSE t[i] \notin MarkerChars /\ PlainOutsideKeysFrom(t, i + 1, map)

\* the inputs on which one replacement can neither spell nor break a
\* placeholder: every key has the form __TAG<n>__, no original tag holds "_"
\* or "T", and neither does the text outside the occurrences of the keys
RestoreSafe(t, map) ==
    /\ \A ph \in DOMAIN map :
          /\ IsPlaceholder(ph)
          /\ \A k \in 1..Len(map[ph].original_tag) :
                map[ph].original_tag[k] \notin MarkerChars
    /\ PlainOutsideKeysFrom(t, 1, map)

----------------------------------------------------------------------------
(* Properties of the reconciler (checked under ReconSpec) *)

\* C2: whatever the result file holds, the list returned by reconciliation
\* has as many entries as lines were submitted.
C2_LengthPreserved ==
    (rpc = "reconciled" /\ ~reconciled.raised) => Len(reconciled.list) = texts

\* the result file holds exactly one well-formed success record for each
\* request of the manifest, in any order
OneSuccessPerRequest ==
    /\ Len(artifact) = Len(manifest)
    /\ \A i \in 1..Len(manifest) :
          \E k \in 1..Len(artifact) :
             /\ artifact[k].kind = "success"
             /\ artifact[k].custom_id = manifest[i].custom_id
             /\ artifact[k].content = Tr(manifest[i].line)

\* C3: if the result file holds exactly one well-formed success record for
\* each request of the manifest, in any order, reconciliation returns the
\* translations of the input lines, in input order.
C3_OrderRestored ==
    (rpc = "reconciled" /\ OneSuccessPerRequest) =>
        /\ ~reconciled.raised
        /\ reconciled.list = [i \in 1..texts |-> Tr(i)]

\* the records of the result file that carry the custom id of request i
RecordsOf(i) ==
    {k \in 1..Len(artifact) :
        artifact[k].kind # "skipped" /\ artifact[k].custom_id = manifest[i].custom_id}

\* the result file holds one well-formed success record for every request
\* of the manifest except request k, and no record at all for request k
AllButRequest(k) ==
    /\ Len(artifact) = Len(manifest) - 1
    /\ RecordsOf(k) = {}
    /\ \A i \in (1..Len(manifest)) \ {k} :
          \E r \in RecordsOf(i) :
             /\ artifact[r].kind = "success"
             /\ artifact[r].content = Tr(manifest[i].line)

\* C15: if the record of one request k is absent from the result file
\* (whichever k, the last included), the returned list still has one entry
\* per submitted line, the entry of k is a missing marker and every other
\* entry is the translation of its own line.
C15_MissingRecordMarked ==
    rpc = "reconciled" =>
        \A k \in 1..Len(manifest) :
            AllButRequest(k) =>
                /\ ~reconciled.raised
                /\ Len(reconciled.list) = texts
                /\ reconciled.list[k] = MissingMarker(k)
                /\ \A i \in (1..texts) \ {k} : reconciled.list[i] = Tr(i)

\* ZHIPU_TEXTS_PER_CHUNK: the number of text lines bundled into a single
\* sub-request of a batch job when the job request gives no texts_per_chunk
ZHIPU_TEXTS_PER_CHUNK == 10

\* the chunks of a job of n lines, and the lines chunk c bundles
ChunkCount(n) == (n + ZHIPU_TEXTS_PER_CHUNK - 1) \div ZHIPU_TEXTS_PER_CHUNK

ChunkLines(c, n) ==
    ((c - 1) * ZHIPU_TEXTS_PER_CHUNK + 1)..Min({c * ZHIPU_TEXTS_PER_CHUNK, n})

\* the result file answers the request of chunk c with one success record
\* that holds a single line
OneLineReturned(c) ==
    LET recs == {k \in 1..Len(artifact) :
                    artifact[k].kind # "skipped" /\ artifact[k].custom_id = RequestId(c)}
    IN /\ Cardinality(recs) = 1
       /\ \A k \in recs : artifact[k].kind = "success"

\* C16: a request that bundles several lines and gets a success response
\* with fewer lines (here: one line) yields one entry per bundled line, the
\* returned line first and a marker for every line that was not returned;
\* the reconciliation does not fail for it.
C16_ShortResponsePadded ==
    rpc = "reconciled" =>
        \A c \in 1..ChunkCount(texts) :
            LET span == ChunkLines(c, texts)
                first == (c - 1) * ZHIPU_TEXTS_PER_CHUNK + 1
            IN (Cardinality(span) >= 2 /\ OneLineReturned(c)) =>
                  /\ ~reconciled.raised
                  /\ \A p \in span : p <= Len(reconciled.list)
                  /\ reconciled.list[first].kind = "translation"
                  /\ \A p \in span \ {first} :
                        reconciled.list[p].kind # "translation"

\* the result file holds exactly one record for each request of the
\* manifest, in any order, each a well-formed success or an error payload,
\* and at least one of them is an error payload
OneRecordPerRequest ==
    /\ Len(artifact) = Len(manifest)
    /\ \A i \in 1..Len(manifest) :
          \E r \in RecordsOf(i) :
             \/ artifact[r].kind = "error"
             \/ artifact[r].kind = "success" /\ artifact[r].content = Tr(manifest[i].line)
    /\ \E r \in 1..Len(artifact) : artifact[r].kind = "error"

\* request i was answered with an error payload
AnsweredWithError(i) == \E r \in RecordsOf(i) : artifact[r].kind = "error"

\* C17: a record with an error payload gives an error marker at the
\* position of its request's line and leaves every other entry at its own
\* position.
C17_ErrorMarkerInPlace ==
    (rpc = "reconciled" /\ OneRecordPerRequest) =>
        /\ ~reconciled.raised
        /\ Len(reconciled.list) = texts
        /\ \A i \in 1..texts :
              reconciled.list[i] = IF AnsweredWithError(i) THEN ErrorMarker ELSE Tr(i)

\* C18: whatever the downloaded result file holds, reconciliation returns a
\* list: no exception leaves download_and_process_results.
C18_ReconcileNeverRaises ==
    rpc = "reconciled" => ~reconciled.raised

----------------------------------------------------------------------------
(* Properties of the job pipeline and the pollers (checked under JobSpec
   and FairJobSpec) *)

TerminalStatuses == {"completed", "completed_with_errors", "failed"}

PollingPcs == {"poll", "download", "bg_poll", "bg_download"}

JobExists == JobId \in DOMAIN JOB_STORE

StoredStatus == JOB_STORE[JobId].status

\* C4: over a whole polling run the status callback is invoked with a
\* terminal status (COMPLETED or FAILED) exactly once, and no callback
\* follows that invocation.
C4_OneTerminalCallback ==
    /\ callbacks.terminal <= 1
    /\ ~callbacks.after_terminal
    /\ (jpc = "done" /\ requests.status > 0) => callbacks.terminal = 1

\* the changes of the stored status that the lifecycle allows in one step
StatusStepAllowed ==
    /\ (~JobExists /\ JobExists') => StoredStatus' = "pending"
    /\ (JobExists /\ JobExists') =>
          /\ StoredStatus = "failed" => StoredStatus' = "failed"
          /\ StoredStatus = "completed" =>
                StoredStatus' \in {"completed", "completed_with_errors"}
          /\ StoredStatus' = "pending" => StoredStatus = "pending"
          /\ StoredStatus' = "processing" =>
                StoredStatus \in {"pending", "processing"}

\* C5: a job record is created with status PENDING; a stored FAILED never
\* changes, a stored COMPLETED changes only to COMPLETED_WITH_ERRORS, and
\* no status is followed by PENDING or, from a terminal status, by
\* PROCESSING.
C5_StatusLifecycle == [][StatusStepAllowed]_vars

\* the poller gave up after MAX_POLLING_ATTEMPTS attempts and reported it
TimedOut ==
    /\ jpc = "done"
    /\ attempts = MAX_POLLING_ATTEMPTS
    /\ StoredStatus = "failed"
    /\ JOB_STORE[JobId].error_message = <<"Polling timeout">>

\* a step from inside the polling loop ends polling, moves on to the
\* download of the same iteration, or consumes one attempt
IterationStep ==
    jpc \in PollingPcs =>
        \/ jpc' = "done"
        \/ jpc \in {"poll", "bg_poll"} /\ jpc' \in {"download", "bg_download"}
        \/ attempts' = attempts + 1

\* C6: polling always terminates.  Every step taken from inside the polling
\* loop ends polling, moves on to the download of the same iteration, or
\* consumes one attempt; never more than MAX_POLLING_ATTEMPTS status
\* queries are sent; a timeout is reported only with the budget spent, and
\* the pipeline's poller that spends its budget reports FAILED with the
\* timeout error; and every job eventually stops with a terminal status,
\* whatever the provider answers.
C6_PollingTerminates ==
    /\ [][IterationStep]_vars
    /\ [](/\ requests.status <= MAX_POLLING_ATTEMPTS
          /\ attempts <= MAX_POLLING_ATTEMPTS
          /\ jpc \in {"poll", "download"} => attempts < MAX_POLLING_ATTEMPTS
          /\ (JobExists /\ JOB_STORE[JobId].error_message = <<"Polling timeout">>)
                => TimedOut
          /\ (response = "handle" /\ attempts = MAX_POLLING_ATTEMPTS) => TimedOut
          /\ jpc = "done" => StoredStatus \in TerminalStatuses)
    /\ <>(jpc = "done")

\* the pipeline's poller spent its whole budget on status queries and
\* reported the timeout
C6_Witness ==
    /\ TimedOut
    /\ response = "handle"
    /\ requests.status = MAX_POLLING_ATTEMPTS
    /\ callbacks.terminal = 1


\* what C13 says of one step of a submission
SubmissionStep ==
    /\ (jpc = "upload" /\ jpc' # "create") =>
          /\ jpc' = "done"
          /\ StoredStatus' = "failed"
          /\ callbacks'.terminal = 1
          /\ requests' = requests
          /\ requests.upload = 1 /\ requests.create = 0 /\ requests.status = 0
    /\ (jpc = "create" /\ jpc' # "poll") =>
          /\ jpc' = "done"
          /\ StoredStatus' = "failed"
          /\ callbacks'.terminal = 1
          /\ requests' = requests
          /\ requests.upload = 1 /\ requests.create = 1 /\ requests.status = 0
    /\ jpc = "done" => requests' = requests

\* C13: submission is all-or-nothing: a failed upload is followed by no
\* job-creation call and a failed job creation by no status query; in both
\* cases FAILED is reported at once, the submission ends and neither request
\* is sent again.
C13_AllOrNothing == [][SubmissionStep]_vars

\* the job creation failed: one upload, one creation, no status query
C13_Witness ==
    /\ jpc = "done"
    /\ JobExists /\ StoredStatus = "failed"
    /\ requests.upload = 1 /\ requests.create = 1 /\ requests.status = 0

\* the submission went through: translate_batch got a batch id
Submitted ==
    \/ jpc \in {"poll", "download"}
    \/ response = "handle" /\ JobExists
         /\ JOB_STORE[JobId].zhipu_batch_id_actual = BatchId

\* C14: a submission makes exactly one upload request and then exactly one
\* job-creation request, whatever the number of input lines, and the
\* job-creation request never precedes the upload.
C14_OneUploadOneCreate ==
    /\ requests.upload <= 1
    /\ requests.create <= requests.upload
    /\ jpc = "create" => requests.create = 1
    /\ Submitted => requests.upload = 1 /\ requests.create = 1

\* a submission of several lines that reached the polling loop
C14_Witness ==
    /\ jpc = "poll"
    /\ texts = MaxLines /\ MaxLines > 1
    /\ Len(manifest) = texts
    /\ requests.upload = 1 /\ requests.create = 1


\* a status query is being answered in this step
StatusTick == jpc \in {"poll", "bg_poll"}

\* what C19 says of one step: a tick answered with 5xx or 429 makes no
\* callback and sends the next status query, unless it was the last query
\* of the budget and the timeout is reported
TransientTickStep ==
    (StatusTick /\ http_error' = "5xx_or_429") =>
        \/ /\ jpc' = jpc
           /\ JOB_STORE' = JOB_STORE
           /\ callbacks' = callbacks
           /\ attempts' = attempts + 1
           /\ requests'.status = requests.status + 1
        \/ /\ requests.status = MAX_POLLING_ATTEMPTS
           /\ requests' = requests
           /\ TimedOut'

\* the next status query has been sent after a tick answered 5xx or 429
AfterTransientTick == StatusTick /\ http_error = "5xx_or_429"

ClientErrorTickStep ==
    (StatusTick /\ http_error' = "4xx") =>
        /\ jpc' = "done"
        /\ StoredStatus' = "failed"
        /\ callbacks'.terminal > callbacks.terminal
        /\ requests' = requests

\* C20: a tick whose status query is answered with a client error 4xx other
\* than 429 ends the polling at that tick: FAILED is reported and no
\* further status query is made.
C20_ClientErrorEndsPolling == [][ClientErrorTickStep]_vars

\* the stored error says that the provider reported completion without an
\* output file
NoOutputReported ==
    /\ JobExists
    /\ JOB_STORE[JobId].error_message \in
          {<<"Batch job completed but no output_file_id found.">>,
           <<"Zhipu batch job completed but no output_file_id found">>}

\* the step that reports the missing output file is a poll tick that ends
\* the polling with FAILED and sends no request
NoOutputStep ==
    /\ (~NoOutputReported /\ NoOutputReported') =>
          /\ jpc \in {"poll", "bg_poll"}
          /\ jpc' = "done"
          /\ StoredStatus' = "failed"
          /\ requests' = requests
    /\ jpc = "done" => requests' = requests

\* C21: when the provider reports "completed" without an output file, the
\* job is reported FAILED and the polling stops at that tick: no download
\* is attempted and no further status query is made.
C21_CompletedWithoutOutputFails ==
    /\ [][NoOutputStep]_vars
    /\ [](NoOutputReported =>
            /\ jpc = "done"
            /\ StoredStatus = "failed"
            /\ callbacks.terminal >= 1)

\* the pipeline's poller got "completed" without an output file at its
\* second tick
C21_Witness ==
    /\ NoOutputReported
    /\ response = "handle"
    /\ jpc = "done"
    /\ requests.status = 2
    /\ requests.download = 0
    /\ callbacks.terminal = 1

\* what C22 says of one step: a tick that obtains the status failed or
\* cancelled ends the polling with FAILED stored, and the stored message
\* holds the diagnostic the provider gave
FailedTickStep ==
    (StatusTick /\ last_tick'.status = "failed") =>
        /\ jpc' = "done"
        /\ StoredStatus' = "failed"
        /\ last_tick'.errors = "message" =>
              "provider diagnostic" \in Range(JOB_STORE'[JobId].error_message)

\* C22: when the provider reports failed or cancelled, polling stops and the
\* job ends FAILED with a stored error message that contains the provider's
\* diagnostic text.
C22_FailedEndsWithDiagnostic == [][FailedTickStep]_vars

\* what C23 says of one step: a tick that obtains a non-terminal remote
\* status invokes the status callback at least once
NonTerminalTickStep ==
    (StatusTick /\ last_tick'.status = "non_terminal") => last_tick'.calls >= 1

\* C23: on every poll tick that obtains a non-terminal remote status,
\* whatever the provider's status word and counts, the status callback is
\* invoked at least once before the next tick.
C23_NonTerminalTickReports == [][NonTerminalTickStep]_vars

\* the stored error says that the translations were obtained and writing
\* the output file raised
WriteFailed ==
    /\ JobExists
    /\ "Results obtained, but failed to write output Excel file"
          \in Range(JOB_STORE[JobId].error_message)

\* C24: if translations were obtained but writing the output artifact
\* fails, the job's status is COMPLETED_WITH_ERRORS, not FAILED, and the
\* obtained translations stay in the job record.
C24_WriteFailureKeepsResults ==
    WriteFailed =>
        /\ StoredStatus = "completed_with_errors"
        /\ JOB_STORE[JobId].translations # <<>>

\* C25: polling never blocks the submission path.  Once the upload and the
\* job creation are done, create_and_process_translation_job has returned
\* its job handle: the handle is there while the poll ticks and the
\* download are still running.
C25_HandleBeforePolling ==
    jpc \in {"poll", "download"} => response = "handle"

\* validity window of a generated token, and the sleep between two ticks
TOKEN_EXPIRATION_SECONDS == 3600

POLLING_INTERVAL_SECONDS == 10

\* translate_batch generates its token once, before the upload, and uses it
\* for every status query and for the download (the refresh inside the loop
\* is commented out): at a tick or download reached after `attempts`
\* iterations the token is at least as old as the sleeps of those iterations
TokenAge == attempts * POLLING_INTERVAL_SECONDS

\* wall-clock seconds (modulo the refresh period) at which
\* background_poll_status may start
StartTimes == {0, 5, 19, 20, 900, 1795}

\* background_poll_status started at wall-clock time start: attempt k runs
\* at start + (k - 1) * POLLING_INTERVAL_SECONDS, and an attempt after the
\* first regenerates the token when the time modulo
\* TOKEN_EXPIRATION_SECONDS \div 2 is below 2 * POLLING_INTERVAL_SECONDS;
\* back is the number of ticks since the latest tick inside such a window
BgTokenAge(start) ==
    LET now  == start + (attempts - 1) * POLLING_INTERVAL_SECONDS
        w    == now % (TOKEN_EXPIRATION_SECONDS \div 2)
        back == IF w < POLLING_INTERVAL_SECONDS * 2 THEN 0
                ELSE (w - POLLING_INTERVAL_SECONDS * 2) \div POLLING_INTERVAL_SECONDS + 1
    IN IF back <= attempts - 2
       THEN back * POLLING_INTERVAL_SECONDS
       ELSE (attempts - 1) * POLLING_INTERVAL_SECONDS

\* C26: at every poll tick and at the result download, the access token in
\* use was generated less than TOKEN_EXPIRATION_SECONDS earlier, for ticks
\* spaced POLLING_INTERVAL_SECONDS apart.
C26_TokenFresh ==
    /\ jpc \in {"poll", "download"} => TokenAge < TOKEN_EXPIRATION_SECONDS
    /\ jpc \in {"bg_poll", "bg_download"} =>
          \A start \in StartTimes : BgTokenAge(start) < TOKEN_EXPIRATION_SECONDS

----------------------------------------------------------------------------
(* Several jobs in one JOB_STORE: the callbacks of concurrently polled     *)
(* jobs are delivered in any interleaving                                   *)

\* number of callback updates one poller makes
MaxUpdates == 2

Job2Id == "job2"

Jobs == {JobId, Job2Id}

\* a job id that create_and_process_translation_job never stored
UnknownJobId == "job3"

\* the entry create_and_process_translation_job stores for a job whose
\* file was read, before translate_batch is awaited
InitialRecord(j) ==
    [InitialJobData EXCEPT !.file_path_processed = "source.xlsx",
                           !.original_texts_count = IF j = JobId THEN 1 ELSE 2]

\* the invocations update_callback(main_job_id, status, **kwargs) the
\* pollers make: progress, completion with a result (write is the outcome
\* of the output file), failure with and without an error text
CallbackUpdates ==
    { [status |-> "processing", write |-> "ok",
       kw |-> [progress |-> 50, zhipu_batch_id |-> BatchId]],
      [status |-> "completed", write |-> "ok",
       kw |-> [result |-> <<Tr(1)>>, zhipu_batch_id |-> BatchId, progress |-> 100]],
      [status |-> "completed", write |-> "raise",
       kw |-> [result |-> <<Tr(1)>>, zhipu_batch_id |-> BatchId, progress |-> 100]],
      [status |-> "failed", write |-> "ok",
       kw |-> [progress |-> 0, zhipu_batch_id |-> BatchId]],
      [status |-> "failed", write |-> "ok",
       kw |-> [error |-> <<"Polling timeout">>, zhipu_batch_id |-> BatchId]] }

UpdateSeqs == UNION {[1..n -> CallbackUpdates] : n \in 0..MaxUpdates}

StoreInit ==
    /\ TagIdle
    /\ ReconIdle
    /\ JOB_STORE = [j \in Jobs |-> InitialRecord(j)]
    /\ api_key = GoodKey
    /\ jpc = "poll"
    /\ attempts = 0
    /\ requests = NoRequests
    /\ callbacks = NoCallbacks
    /\ response = "none"
    /\ http_error = "unobserved"
    /\ last_tick = NoTick
    /\ PipeIdle
    /\ updates \in [Jobs -> UpdateSeqs]
    /\ applied = [j \in Jobs \cup {UnknownJobId} |-> 0]

\* the poller of job j invokes its next callback
DeliverUpdate ==
    \E j \in Jobs :
       /\ applied[j] < Len(updates[j])
       /\ LET u == updates[j][applied[j] + 1]
          IN JOB_STORE' = UpdateJobStoreCallback(JOB_STORE, j, u.status, u.kw, u.write)
       /\ applied' = [applied EXCEPT ![j] = @ + 1]
       /\ UNCHANGED <<api_key, jpc, attempts, requests, callbacks, response,
                      http_error, last_tick, updates>>
       /\ UNCHANGED <<tagVars, reconVars, pipeVars, extractVars>>

\* a callback arrives for a job id the store does not hold
DeliverUnknown ==
    /\ applied[UnknownJobId] < MaxUpdates
    /\ \E u \in CallbackUpdates :
          JOB_STORE' = UpdateJobStoreCallback(JOB_STORE, UnknownJobId,
                                              u.status, u.kw, u.write)
    /\ applied' = [applied EXCEPT ![UnknownJobId] = @ + 1]
    /\ UNCHANGED <<api_key, jpc, attempts, requests, callbacks, response,
                   http_error, last_tick, updates>>
    /\ UNCHANGED <<tagVars, reconVars, pipeVars, extractVars>>

StoreNext == DeliverUpdate \/ DeliverUnknown

StoreSpec == StoreInit /\ [][StoreNext]_vars

\* the record of job j after the first n of its own updates, delivered to a
\* store that holds no other job
RECURSIVE OwnUpdatesAlone(_, _)
OwnUpdatesAlone(j, n) ==
    IF n = 0 THEN InitialRecord(j)
    ELSE LET u == updates[j][n]
             before == [k \in {j} |-> OwnUpdatesAlone(j, n - 1)]
         IN UpdateJobStoreCallback(before, j, u.status, u.kw, u.write)[j]

\* C27: jobs share no state beyond the store keyed by job id.  Under any
\* interleaving of the callback updates of several jobs, the store holds
\* exactly the jobs' records and each record equals what the job's own
\* updates alone produce.
C27_JobsIndependent ==
    /\ DOMAIN JOB_STORE = Jobs
    /\ \A j \in Jobs : JOB_STORE[j] = OwnUpdatesAlone(j, applied[j])

\* both jobs are half way through their updates, one in progress and the
\* other failed
C27_Witness ==
    /\ \A j \in Jobs : Len(updates[j]) = 2 /\ applied[j] = 1
    /\ JOB_STORE[JobId].status = "processing"
    /\ JOB_STORE[Job2Id].status = "failed"

\* the status of the existing job record changes in this step
StatusWritten == JobExists /\ JobExists' /\ StoredStatus' # StoredStatus

\* the step is a write of the poller callback: a reported terminal status,
\* or a report of the poll loop, where nothing but the poller runs
CallbackWrite ==
    \/ /\ callbacks'.terminal > callbacks.terminal
       /\ StoredStatus' \in {"completed", "failed"}
    \/ /\ jpc \in PollingPcs
       /\ StoredStatus' \in {"processing", "completed", "failed"}

\* create_and_process_translation_job marks the job FAILED itself and
\* raises to its caller
RaisingWrite ==
    /\ jpc = "read_file"
    /\ jpc' = "done"
    /\ response' = "error"
    /\ StoredStatus' = "failed"

StatusWriteStep_Original == StatusWritten => CallbackWrite

StatusWriteStep == StatusWritten => (CallbackWrite \/ RaisingWrite)

C32_CorrelationIds ==
    rpc \in {"submitted", "provided", "reconciled"} =>
        /\ Len(manifest) = texts
        /\ \A i \in 1..Len(manifest) :
              /\ manifest[i].custom_id.n = i
              /\ manifest[i].line = i
              /\ \A j \in 1..Len(manifest) :
                    manifest[i].custom_id = manifest[j].custom_id => i = j
              /\ CustomIdToFind(i) = manifest[i].custom_id

----------------------------------------------------------------------------
(* The pipeline from the source column to the stored translations, with a  *)
(* provider that echoes each request's line                                *)

\* the newline character
NL == "\n"

\* "Hello {$playerName}!"
HelloLine ==
    <<"H","e","l","l","o"," ","{","$","p","l","a","y","e","r","N","a","m",
      "e","}","!">>

\* "<color=red>HP 100</color>"
ColorLine ==
    <<"<","c","o","l","o","r","=","r","e","d",">","H","P"," ","1","0","0",
      "<","/","c","o","l","o","r",">">>

\* the texts the two lines of a source column can hold
ColumnTexts ==
    { HelloLine, ColorLine,
      <<"H", "P">>,
      <<"[", "i", "t", "e", "m", ":", "a", "]">>,
      <<"%", "s">>,
      <<"a", NL, "b">>,
      <<NL>>,
      <<"a", "\\", "n", "\"">> }

\* json.dumps(..., ensure_ascii=False) of one character of a string value:
\* the newline, the quote and the backslash are written as escapes
JsonEscape_Raw(c) == <<c>>

JsonEscape(c) ==
    IF c = NL THEN <<"\\", "n">>
    ELSE IF c = "\"" THEN <<"\\", "\"">>
    ELSE IF c = "\\" THEN <<"\\", "\\">>
    ELSE <<c>>

\* json.dumps of a string value
JsonString(t) ==
    <<"\"">> \o Flatten([i \in DOMAIN t |-> JsonEscape(t[i])]) \o <<"\"">>

\* f"request_{i}"
CurrentCustomId(i) == <<"r", "e", "q", "u", "e", "s", "t", "_", DigitChar(i)>>

\* the user message f"<prompt>\n{text}"; "P" stands for the prompt
UserContent(line) == <<"P", NL>> \o line

\* json.dumps(request_line_data): the custom_id and the user content are
\* the two values that vary, the other keys and values are constant
RequestLineData(i, line) ==
    <<"{">> \o JsonString(<<"i", "d">>) \o <<":">> \o JsonString(CurrentCustomId(i))
       \o <<",">> \o JsonString(<<"c">>) \o <<":">>
       \o JsonString(UserContent(line)) \o <<"}">>

\* "\n".join(jsonl_lines)
RECURSIVE JoinLines(_)
JoinLines(ls) ==
    IF ls = <<>> THEN <<>>
    ELSE IF Len(ls) = 1 THEN ls[1]
    ELSE ls[1] \o <<NL>> \o JoinLines(Tail(ls))

JsonlContent(lines) ==
    JoinLines([i \in 1..Len(lines) |-> RequestLineData(i, lines[i])])

\* translate_batch's jsonl_lines for these texts: request i carries
\* texts[i-1] itself in its user message
BuildManifestOf(lines) ==
    [i \in 1..Len(lines) |-> [custom_id |-> RequestId(i), line |-> lines[i]]]

\* the result file of a provider that answers every request with the
\* request's line, the records in the order given by the permutation
EchoFile(requests_sent, order) ==
    [k \in 1..Len(requests_sent) |->
        [kind      |-> "success",
         custom_id |-> requests_sent[order[k]].custom_id,
         content   |-> requests_sent[order[k]].line]]

PipeInit ==
    /\ TagIdle
    /\ JOB_STORE = <<>>
    /\ api_key = GoodKey
    /\ jpc = "idle"
    /\ attempts = 0
    /\ requests = NoRequests
    /\ callbacks = NoCallbacks
    /\ response = "none"
    /\ http_error = "unobserved"
    /\ last_tick = NoTick
    /\ StoreIdle
    /\ original_texts \in [1..2 -> ColumnTexts]
    /\ jsonl_content = <<>>
    /\ extracted = <<>>
    /\ texts = 2
    /\ manifest = <<>>
    /\ artifact = <<>>
    /\ reconciled = [raised |-> FALSE, list |-> <<>>]
    /\ rpc = "start"

\* create_and_process_translation_job hands the column's texts to
\* translate_batch, which builds and uploads the manifest
PipeSubmit ==
    /\ rpc = "start"
    /\ manifest' = BuildManifestOf(original_texts)
    /\ jsonl_content' = JsonlContent(original_texts)
    /\ rpc' = "submitted"
    /\ UNCHANGED <<texts, artifact, reconciled, original_texts>>
    /\ UNCHANGED <<tagVars, jobVars, storeVars, extractVars>>

\* the provider writes its result file
PipeEcho ==
    /\ rpc = "submitted"
    /\ \E order \in Permutations(1..Len(manifest)) :
          artifact' = EchoFile(manifest, order)
    /\ rpc' = "provided"
    /\ UNCHANGED <<texts, manifest, reconciled>>
    /\ UNCHANGED <<tagVars, jobVars, storeVars, pipeVars, extractVars>>

\* download_and_process_results; its list is what the callback stores as
\* the job's translations and writes to the output file
PipeReconcile ==
    /\ rpc = "provided"
    /\ reconciled' = DownloadAndProcessResults(artifact)
    /\ rpc' = "reconciled"
    /\ UNCHANGED <<texts, manifest, artifact>>
    /\ UNCHANGED <<tagVars, jobVars, storeVars, pipeVars, extractVars>>

PipeNext == PipeSubmit \/ PipeEcho \/ PipeReconcile

PipeSpec == PipeInit /\ [][PipeNext]_vars

\* the original tags that protect_tags finds in a line
TagsOf(line) ==
    LET map == ProtectTags(line, "none").tag_map
    IN {map[ph].original_tag : ph \in DOMAIN map}

\* C29: end to end, for the inputs "Hello {$playerName}!" and
\* "<color=red>HP 100</color>", one line per request and a provider that
\* echoes each request's line, the pipeline sends placeholder-protected
\* lines and its final output has two entries in input order, each
\* containing its original tags exactly.
C29_EndToEndProtected ==
    original_texts = <<HelloLine, ColorLine>> =>
        /\ rpc \in {"submitted", "provided", "reconciled"} =>
              /\ Len(manifest) = 2
              /\ \A i \in 1..2 :
                    manifest[i].line =
                       ProtectTags(original_texts[i], "none").protected_text
        /\ rpc = "reconciled" =>
              /\ ~reconciled.raised
              /\ Len(reconciled.list) = 2
              /\ \A i \in 1..2 :
                    \A tag \in TagsOf(original_texts[i]) :
                       Contains(reconciled.list[i], tag)

----------------------------------------------------------------------------
(* Properties of the credential check (checked under JobSpec) *)

\* C33: a credential that is not of the form 'id.secret' is rejected
\* immediately: no upload request and no job-creation request is issued
\* with it, and the submission ends as a failure carrying the format error.
C33_MalformedKeyRejected ==
    SplitParts(api_key) # 2 =>
        /\ requests.upload = 0
        /\ requests.create = 0
        /\ (jpc = "done" /\ response = "handle") =>
              /\ JOB_STORE[JobId].status = "failed"
              /\ KeyFormatError \in Range(JOB_STORE[JobId].error_message)

C33_Witness ==
    /\ api_key = <<"i", ".", "s", ".", "x">>
    /\ jpc = "done"
    /\ response = "handle"
    /\ requests = NoRequests
    /\ JOB_STORE[JobId].status = "failed"
    /\ KeyFormatError \in Range(JOB_STORE[JobId].error_message)

----------------------------------------------------------------------------
(* Properties of the uploaded requests file (checked under PipeSpec) *)

\* the k-th smallest member of a set of numbers
Kth(S, k) == CHOOSE p \in S : Cardinality({q \in S : q < p}) = k - 1

\* the record lines of a requests file: the text between its newlines
RecordLines(content) ==
    LET nls == {i \in DOMAIN content : content[i] = NL}
        n == Cardinality(nls) + 1
    IN [k \in 1..n |->
           SubSeq(content, Kth(nls \cup {0}, k) + 1,
                           Kth(nls \cup {Len(content) + 1}, k) - 1)]

\* the number of backslashes that stand directly before position i
BackslashRun(s, i) ==
    Cardinality({j \in 1..(i - 1) : \A m \in j..(i - 1) : s[m] = "\\"})

\* position i is written as the second character of an escape
Escaped(s, i) == BackslashRun(s, i) % 2 = 1

\* the string values a JSON reader finds in a record line, unescaped: a
\* value lies between two unescaped quotes, an unescaped backslash only
\* introduces the character after it, and an escaped n is a newline
StringValues(s) ==
    LET quotes == {i \in DOMAIN s : s[i] = "\"" /\ ~Escaped(s, i)}
        Value(from, to) ==
            LET inner == [k \in 1..(to - from - 1) |-> from + k]
                kept == SelectSeq(inner,
                           LAMBDA i : ~(s[i] = "\\" /\ ~Escaped(s, i)))
            IN [k \in 1..Len(kept) |->
                   IF Escaped(s, kept[k]) /\ s[kept[k]] = "n"
                   THEN NL ELSE s[kept[k]]]
    IN [v \in 1..(Cardinality(quotes) \div 2) |->
           Value(Kth(quotes, 2 * v - 1), Kth(quotes, 2 * v))]

\* C34: a literal newline inside a source line cannot corrupt line
\* boundaries: the uploaded manifest has exactly one record line per input
\* line, in input order, also when input lines contain newline characters.
C34_OneRecordPerLine ==
    rpc \in {"submitted", "provided", "reconciled"} =>
        LET lines == RecordLines(jsonl_content)
        IN /\ Len(lines) = Len(original_texts)
           /\ \A k \in 1..Len(lines) :
                 StringValues(lines[k]) =
                    << <<"i", "d">>, CurrentCustomId(k), <<"c">>,
                       UserContent(original_texts[k]) >>

C34_Witness ==
    /\ rpc = "submitted"
    /\ original_texts = << <<"a", NL, "b">>, <<"a", "\\", "n", "\"">> >>
    /\ Len(RecordLines(jsonl_content)) = 2
    /\ Cardinality({i \in DOMAIN jsonl_content : jsonl_content[i] = NL}) = 1

----------------------------------------------------------------------------
(* extract_tags *)

\* the pieces the texts given to extract_tags are assembled from
ExtractPieces == {
    <<"{", "$", "a", "}">>,
    <<"<", "b", ">">>,
    <<"<", "/", "b", ">">>,
    <<"%", "s">>,
    <<"[", "a", "]">>,
    <<"a">> }

ExtractTexts ==
    {Flatten(l) : l \in UNION {[1..n -> ExtractPieces] : n \in 0..3}}

\* the keys of game_tag_patterns, format_patterns and general_patterns, in
\* insertion order; their expressions are those of the registry
GameTagPatterns ==
    <<"brace_variables", "item_links", "npc_links", "quest_links",
      "achievement_links", "game_icons", "game_commands">>

FormatPatterns == <<"percentage_vars", "format_specifiers", "color_codes">>

GeneralPatterns == <<"html_tags", "brackets", "parentheses", "quotes">>

\* re.finditer(pattern, text)
FindAll(name, t) == FindIter([name |-> name, priority |-> 0], t, 1)

\* any(start < p_end and end > p_start for ... in processed_positions)
OverlapsProcessed(m, processed) ==
    \E r \in processed : m.start_pos < r[2] /\ m.end_pos > r[1]

\* tags.append(tag); processed_positions.add((start, end))
Keep(st, m) ==
    [st EXCEPT !.tags = Append(@, m),
               !.processed = @ \cup {<<m.start_pos, m.end_pos>>}]

\* the loop over the matches of one pattern
RECURSIVE AddMatches(_, _)
AddMatches(ms, st) ==
    IF ms = <<>> THEN st
    ELSE IF OverlapsProcessed(Head(ms), st.processed)
         THEN AddMatches(Tail(ms), st)
         ELSE AddMatches(Tail(ms), Keep(st, Head(ms)))

\* the loop over the patterns of one group
RECURSIVE AddPatterns(_, _, _)
AddPatterns(names, t, st) ==
    IF names = <<>> THEN st
    ELSE AddPatterns(Tail(names), t, AddMatches(FindAll(Head(names), t), st))

\* the loop over <([^>]+)>: a closing tag is kept only when its opening
\* tag has been seen
RECURSIVE AddUnityTags(_, _)
AddUnityTags(ms, st) ==
    IF ms = <<>> THEN st
    ELSE LET m == Head(ms)
             tag == m.original_tag
         IN IF OverlapsProcessed(m, st.processed)
            THEN AddUnityTags(Tail(ms), st)
            ELSE IF StartsWith(tag, 1, <<"<", "/">>)
                 THEN IF Replace(tag, <<"<", "/">>, <<"<">>) \in st.unity_tags
                      THEN AddUnityTags(Tail(ms), Keep(st, m))
                      ELSE AddUnityTags(Tail(ms), st)
                 ELSE AddUnityTags(Tail(ms),
                         Keep([st EXCEPT !.unity_tags = @ \cup {tag}], m))

\* Python: text.find(tag) for a tag that occurs in the text (0-based)
Find(t, tag) == Min({i \in 1..Len(t) : StartsWith(t, i, tag)}) - 1

\* tags.sort(key=lambda x: text.find(x)): a stable sort on the first
\* occurrence of the tag's string
RECURSIVE InsertByFind(_, _, _)
InsertByFind(sorted, x, t) ==
    IF sorted = <<>> THEN <<x>>
    ELSE IF Find(t, x.original_tag) < Find(t, Head(sorted).original_tag)
         THEN <<x>> \o sorted
         ELSE <<Head(sorted)>> \o InsertByFind(Tail(sorted), x, t)

RECURSIVE SortByFind(_, _, _)
SortByFind(todo, sorted, t) ==
    IF todo = <<>> THEN sorted
    ELSE SortByFind(Tail(todo), InsertByFind(sorted, Head(todo), t), t)

\* extract_tags(text): the matches whose strings are returned, in the
\* order of the returned list
ExtractTags(t) ==
    IF t = <<>> THEN <<>>
    ELSE LET s0 == [tags |-> <<>>, processed |-> {}, unity_tags |-> {}]
             s1 == AddPatterns(GameTagPatterns, t, s0)
             s2 == AddUnityTags(FindAll("html_tags", t), s1)
             s3 == AddPatterns(FormatPatterns, t, s2)
             s4 == AddPatterns(GeneralPatterns, t, s3)
         IN SortByFind(s4.tags, <<>>, t)

ExtractInit ==
    /\ ReconIdle
    /\ JobIdle
    /\ text \in ExtractTexts
    /\ custom_patterns = "none"
    /\ tpc = "input"
    /\ all_tags = <<>>
    /\ protected_text = <<>>
    /\ tag_map = <<>>
    /\ translated_text = <<>>
    /\ restored_text = <<>>

\* a call of extract_tags on the text
Extract ==
    /\ tpc = "input"
    /\ extracted' = ExtractTags(text)
    /\ tpc' = "extracted"
    /\ UNCHANGED <<text, custom_patterns, all_tags, protected_text, tag_map,
                   translated_text, restored_text>>
    /\ UNCHANGED <<reconVars, jobVars, storeVars, pipeVars>>

ExtractSpec == ExtractInit /\ [][Extract]_vars

\* the strings of a list of matches
TagStrings(ms) == [i \in DOMAIN ms |-> ms[i].original_tag]

\* C35: extract returns the matched tag substrings ordered left to right by
\* the position of their match in the text, no two returned tags come from
\* overlapping spans, and the call changes neither the text nor any state
\* used by protect/restore.
C35_ExtractOrdered ==
    tpc = "extracted" =>
        /\ TagStrings(extracted) = TagStrings(SortByStart(extracted))
        /\ \A i, j \in DOMAIN extracted :
              i # j => \/ extracted[i].end_pos <= extracted[j].start_pos
                       \/ extracted[j].end_pos <= extracted[i].start_pos

----------------------------------------------------------------------------
(* Properties of the job store (checked under JobSpec) *)

\* the keyword arguments of a COMPLETED callback that carries no results
KwargsWithoutResult ==
    { [zhipu_batch_id |-> BatchId],
      [zhipu_batch_id |-> BatchId, progress |-> 100],
      [zhipu_batch_id |-> BatchId, result |-> <<>>],
      [zhipu_batch_id |-> BatchId, error |-> <<"Polling timeout">>] }

\* C36: in every reachable state of the job store, a job with status
\* COMPLETED has a non-empty translations list, translated_texts_count
\* equal to the length of that list, and progress_percentage 100; a
\* COMPLETED callback without results never leaves the job COMPLETED.
C36_CompletedHasResults ==
    \A j \in DOMAIN JOB_STORE :
       /\ JOB_STORE[j].status = "completed" =>
             /\ JOB_STORE[j].translations # <<>>
             /\ JOB_STORE[j].translated_texts_count = Len(JOB_STORE[j].translations)
             /\ JOB_STORE[j].progress_percentage = 100
       /\ \A kw \in KwargsWithoutResult, write \in {"ok", "raise"} :
             UpdateJobStoreCallback(JOB_STORE, j, "completed", kw, write)[j].status
                # "completed"

C36_Witness ==
    /\ JobExists
    /\ JOB_STORE[JobId].status = "completed"
    /\ Len(JOB_STORE[JobId].translations) = MaxLines
    /\ JOB_STORE[JobId].translated_texts_count = MaxLines
    /\ JOB_STORE[JobId].progress_percentage = 100
    /\ callbacks.terminal = 1

\* C37: in every reachable state of the job store, a job with status FAILED
\* has a non-null error_message, whichever path failed it (pre-submission
\* check, submission failure, terminal callback with or without an error
\* argument, timeout).
C37_FailedHasMessage ==
    \A j \in DOMAIN JOB_STORE :
       JOB_STORE[j].status = "failed" => JOB_STORE[j].error_message # <<>>

\* a job failed by a terminal callback that carried no error argument
C37_Witness ==
    /\ JobExists
    /\ JOB_STORE[JobId].status = "failed"
    /\ JOB_STORE[JobId].error_message = DefaultFailureMessage
    /\ DefaultFailureMessage # <<>>
    /\ callbacks.terminal >= 1

----------------------------------------------------------------------------
(* Properties of callbacks for unknown jobs (checked under StoreSpec) *)

\* the step delivers a callback for the unknown job id
UnknownCallbackStep ==
    applied'[UnknownJobId] # applied[UnknownJobId] =>
        /\ UnknownJobId \notin DOMAIN JOB_STORE'
        /\ JOB_STORE' = JOB_STORE

\* C38: a status callback for a job id that is not in the job store is
\* ignored: it creates no record and leaves every existing record unchanged.
C38_UnknownJobIgnored == [][UnknownCallbackStep]_vars

\* callbacks for the unknown id have been delivered between the updates of
\* the stored jobs
C38_Witness ==
    /\ applied[UnknownJobId] = MaxUpdates
    /\ DOMAIN JOB_STORE = Jobs
    /\ JOB_STORE[JobId].status = "completed"
    /\ JOB_STORE[Job2Id].status = "failed"

----------------------------------------------------------------------------
(* Properties of job creation (checked under JobSpec) *)

\* create_and_process_translation_job has ended without calling
\* translate_batch: no manifest was built
FailedBeforeSubmission == jpc = "done" /\ manifest = <<>>

\* C39: if job creation fails before submission (source file not found, or
\* the column yields no texts), the job record exists with status FAILED
\* and an error message, the caller gets an error, and no upload,
\* job-creation or status request is sent to the provider.
C39_FailsBeforeSubmission ==
    FailedBeforeSubmission =>
        /\ JobExists
        /\ JOB_STORE[JobId].status = "failed"
        /\ JOB_STORE[JobId].error_message # <<>>
        /\ response = "error"
        /\ requests.upload = 0
        /\ requests.create = 0
        /\ requests.status = 0

C39_Witness ==
    /\ FailedBeforeSubmission
    /\ JOB_STORE[JobId].status = "failed"
    /\ JOB_STORE[JobId].error_message =
          <<"No texts found in the specified column of the Excel file.">>
    /\ response = "error"
    /\ requests = NoRequests

=============================================================================
